---- MODULE Spec2Model ----
(***************************************************************************)
(* A model of sophia_oxigraph: the adapter exposing an Oxigraph repository *)
(* as a Sophia dataset.                                                    *)
(*                                                                         *)
(*   term.rs         conversions between Sophia terms and Oxigraph terms   *)
(*   once_toggle.rs  OnceToggle, the two-state lazy cell                   *)
(*   quad.rs         QuadBridge, one OnceToggle per field of a quad        *)
(*   connection.rs   Dataset / MutableDataset for SophiaConnection         *)
(*   repository.rs   Dataset / MutableDataset for SophiaRepository         *)
(*                                                                         *)
(* Strings the code computes on (blank node identifiers, language tags)    *)
(* are sequences of bytes; strings it only carries (IRIs, lexical values,  *)
(* variable names) are TLA+ strings.  A u128 is the sequence of its 32     *)
(* hexadecimal digits, most significant first.                             *)
(***************************************************************************)
EXTENDS Integers, Sequences, FiniteSets, TLC

VARIABLES
    endian,     \* byte order of the build target: "little" or "big"
    tterm,      \* TermSpec: the Sophia term under conversion
    tpos,       \* TermSpec: the quad position it is converted for
    tnative,    \* TermSpec: result of try_oxigraphize, or None
    tback,      \* TermSpec: into_sophia of that result, or None
    cell,       \* CellSpec: the OnceToggle, [state1, state2]
    cinit,      \* CellSpec: the value the OnceToggle was created with
    hist,       \* CellSpec: the calls made on the OnceToggle, with their outcomes
    store,      \* the quads of the repository (Oxigraph quads)
    last,       \* Spec: the call just made on the connection, or None
    sq,         \* ScenarioSpec: the quad (Sophia terms) of the scenario
    strace,     \* ScenarioSpec: the calls made so far, with their outcomes
    oquad,      \* BridgeSpec: the Oxigraph quad the bridge was made from
    qb,         \* BridgeSpec: the QuadBridge, one cell per field
    qhist,      \* BridgeSpec: the accessors called, each with the bridge before the call
    nterm,      \* NativeSpec: the Oxigraph term read from the store
    npos,       \* NativeSpec: the quad position it was read from
    ngeneric,   \* NativeSpec: into_sophia of that term, or None
    nback       \* NativeSpec: the conversion of that back to the position, or None

termVars == <<tterm, tpos, tnative, tback>>
cellVars == <<cell, cinit, hist>>
scenarioVars == <<sq, strace>>
bridgeVars == <<oquad, qb, qhist>>
nativeVars == <<nterm, npos, ngeneric, nback>>
vars == <<endian, termVars, cellVars, scenarioVars, bridgeVars, nativeVars, store, last>>

----------------------------------------------------------------------------
(* Option and Result *)

None == [some |-> FALSE]
Some(x) == [some |-> TRUE, val |-> x]

Ok(x) == [ok |-> TRUE, val |-> x]
Err(e) == [ok |-> FALSE, err |-> e]

----------------------------------------------------------------------------
(* Bounds of the model *)

\* Longest run of one repeated character in a generated blank node identifier.
MaxIdLen == 33
\* Number of calls made on one OnceToggle.
MaxCalls == 3
\* Number of quads in the store.
MaxStore == 2

----------------------------------------------------------------------------
(* Program constants *)

\* value.len() <= 16: the size in bytes of a u128.
U128_BYTES == 16
\* The number of hexadecimal digits of a u128.
U128_HEX_DIGITS == 32
\* The radix passed to u128::from_str_radix.
RADIX == 16

XSD_STRING == "http://www.w3.org/2001/XMLSchema#string"
RDF_LANG_STRING == "http://www.w3.org/1999/02/22-rdf-syntax-ns#langString"

----------------------------------------------------------------------------
(* Bytes and u128 *)

Repeat(c, n) == [i \in 1..n |-> c]

\* char::to_digit(16): the value of an ASCII hexadecimal digit, or -1.
to_digit(b) ==
    IF b \in 48..57 THEN b - 48
    ELSE IF b \in 97..102 THEN b - 87
    ELSE IF b \in 65..70 THEN b - 55
    ELSE -1

RECURSIVE StripLeadingZeros(_)
StripLeadingZeros(ds) ==
    IF ds = <<>> THEN <<>>
    ELSE IF ds[1] = 0 THEN StripLeadingZeros(Tail(ds))
    ELSE ds

\* u128::from_str_radix(value, 16): "" is Empty and a lone sign InvalidDigit;
\* after an optional leading '+' the characters are read from the left, each
\* one first as a digit of either case (InvalidDigit) and then accumulated
\* with an overflow check (PosOverflow), so the first failing character
\* decides the error.
from_str_radix(value) ==
    IF value = <<>> THEN Err("Empty")
    ELSE IF value = <<43>> \/ value = <<45>> THEN Err("InvalidDigit")
    ELSE LET digits == IF value[1] = 43 THEN Tail(value) ELSE value
             bad == {i \in 1..Len(digits) : to_digit(digits[i]) < 0}
             read == IF bad = {} THEN Len(digits)
                     ELSE (CHOOSE i \in bad : \A j \in bad : i <= j) - 1
             sig == StripLeadingZeros([i \in 1..read |-> to_digit(digits[i])])
         IN  IF Len(sig) > U128_HEX_DIGITS THEN Err("Overflow")
             ELSE IF bad # {} THEN Err("InvalidDigit")
             ELSE Ok(Repeat(0, U128_HEX_DIGITS - Len(sig)) \o sig)

\* write!(&mut id[..], "{}", value) on let mut id = [0_u8; 16]
zero_padded(value) ==
    [i \in 1..U128_BYTES |-> IF i <= Len(value) THEN value[i] ELSE 0]

\* std::mem::transmute::<[u8; 16], u128>: the bytes in the target's byte order.
transmute(bytes) ==
    [k \in 1..U128_HEX_DIGITS |->
        LET j == (k + 1) \div 2
            b == IF endian = "little" THEN bytes[U128_BYTES + 1 - j] ELSE bytes[j]
        IN  IF k % 2 = 1 THEN b \div RADIX ELSE b % RADIX]

\* Mutant of lower_hex: format!("{:X}", id), upper-case digits.
lower_hex_UpperCase(id) ==
    LET sig == StripLeadingZeros(id)
        ch(n) == IF n < 10 THEN 48 + n ELSE 55 + n
    IN  IF sig = <<>> THEN <<48>> ELSE [i \in 1..Len(sig) |-> ch(sig[i])]

\* format!("{:x}", id): lower-case hexadecimal without leading zeros.
lower_hex(id) ==
    LET sig == StripLeadingZeros(id)
        ch(n) == IF n < 10 THEN 48 + n ELSE 87 + n
    IN  IF sig = <<>> THEN <<48>> ELSE [i \in 1..Len(sig) |-> ch(sig[i])]

\* str::to_ascii_lowercase
to_ascii_lowercase(tag) ==
    [i \in 1..Len(tag) |-> IF tag[i] \in 65..90 THEN tag[i] + 32 ELSE tag[i]]

----------------------------------------------------------------------------
(* Oxigraph terms *)

NamedNode_new_unchecked(iri) == [kind |-> "NamedNode", iri |-> iri]

\* BlankNode { id, str }: str is written from id at construction.
OBlankNode_new_from_unique_id(id) ==
    [kind |-> "BlankNode", id |-> id, str |-> lower_hex(id)]

OBlankNode_as_str(b) == b.str

OLiteral_new_typed_literal(value, datatype) ==
    IF datatype = NamedNode_new_unchecked(XSD_STRING)
    THEN [kind |-> "Literal", variant |-> "String", value |-> value]
    ELSE [kind |-> "Literal", variant |-> "TypedLiteral", value |-> value,
          datatype |-> datatype]

OLiteral_new_language_tagged_literal_unchecked(value, language) ==
    [kind |-> "Literal", variant |-> "LanguageTaggedString", value |-> value,
     language |-> language]

\* Literal::destruct: (value, Option<datatype>, Option<language>)
OLiteral_destruct(l) ==
    CASE l.variant = "String" -> <<l.value, None, None>>
      [] l.variant = "LanguageTaggedString" -> <<l.value, None, Some(l.language)>>
      [] l.variant = "TypedLiteral" -> <<l.value, Some(l.datatype), None>>

----------------------------------------------------------------------------
(* Sophia terms *)

\* Iri { ns, suffix, absolute }: the value is ns followed by suffix.
SIri_new_unchecked(ns, suffix, absolute) ==
    [kind |-> "Iri", ns |-> ns, suffix |-> suffix, absolute |-> absolute]

SIri_value(i) == i.ns \o i.suffix

SBlankNode_new_unchecked(id) == [kind |-> "BNode", id |-> id]

SLiteral_new_dt(txt, dt) ==
    [kind |-> "Literal", txt |-> txt, lang |-> None, dt |-> dt]

SLiteral_new_lang_unchecked(txt, tag) ==
    [kind |-> "Literal", txt |-> txt, lang |-> Some(tag),
     dt |-> SIri_new_unchecked(RDF_LANG_STRING, "", TRUE)]

SVariable(name) == [kind |-> "Variable", name |-> name]

\* PartialEq of sophia_term::Term: IRIs by value, literals by lexical value
\* and kind, language tags without regard to ASCII case.
STermEq(a, b) ==
    /\ a.kind = b.kind
    /\ CASE a.kind = "Iri" -> SIri_value(a) = SIri_value(b)
         [] a.kind = "BNode" -> a.id = b.id
         [] a.kind = "Variable" -> a.name = b.name
         [] a.kind = "Literal" ->
                /\ a.txt = b.txt
                /\ a.lang.some = b.lang.some
                /\ IF a.lang.some
                   THEN to_ascii_lowercase(a.lang.val) = to_ascii_lowercase(b.lang.val)
                   ELSE SIri_value(a.dt) = SIri_value(b.dt)

----------------------------------------------------------------------------
(* term.rs: Oxigraph to Sophia *)

OBlankNode_into_sophia_b(b) == SBlankNode_new_unchecked(OBlankNode_as_str(b))

NamedNode_into_sophia_i(n) == SIri_new_unchecked(n.iri, "", TRUE)

\* Mutant of OLiteral_into_sophia_l: the (Some(dt), _) arm is missing, so a
\* typed literal is rebuilt as an xsd:string.
OLiteral_into_sophia_l_DropsDatatype(l) ==
    LET d == OLiteral_destruct(l)
        val == d[1]
        lang == d[3]
    IN  IF ~lang.some
        THEN SLiteral_new_dt(val, SIri_new_unchecked(XSD_STRING, "", TRUE))
        ELSE SLiteral_new_lang_unchecked(val, lang.val)

OLiteral_into_sophia_l(l) ==
    LET d == OLiteral_destruct(l)
        val == d[1]
        dt == d[2]
        lang == d[3]
    IN  IF ~dt.some /\ ~lang.some
        THEN SLiteral_new_dt(val, SIri_new_unchecked(XSD_STRING, "", TRUE))
        ELSE IF dt.some THEN SLiteral_new_dt(val, NamedNode_into_sophia_i(dt.val))
        ELSE SLiteral_new_lang_unchecked(val, lang.val)

\* AsSophiaTerm::into_sophia for OTerm, NamedOrBlankNode and NamedNode
into_sophia(t) ==
    CASE t.kind = "BlankNode" -> OBlankNode_into_sophia_b(t)
      [] t.kind = "Literal" -> OLiteral_into_sophia_l(t)
      [] t.kind = "NamedNode" -> NamedNode_into_sophia_i(t)

\* "und"
UND == <<117, 110, 100>>

MaxSubtagLen == 8

IsAlpha(c) == c \in 65..90 \/ c \in 97..122

IsAlphanum(c) == IsAlpha(c) \/ c \in 48..57

\* The test SLiteral::new_lang applies to a tag, for tags of the form
\* language ("-" subtag)*: letters, then groups of letters and digits, each
\* of 1 to 8 characters (the primary language of 2 at least).
is_valid_language_tag(tag) ==
    /\ Len(tag) >= 2
    /\ \A i \in 1..Len(tag) : IsAlphanum(tag[i]) \/ tag[i] = 45
    /\ IsAlpha(tag[1]) /\ IsAlpha(tag[2])
    /\ tag[Len(tag)] # 45
    /\ \A i \in 1..(Len(tag) - 1) : ~(tag[i] = 45 /\ tag[i + 1] = 45)
    /\ \A i \in 1..Len(tag) :
          (\A j \in 1..i : tag[j] # 45) => IsAlpha(tag[i])
    /\ \A i \in 1..(Len(tag) - MaxSubtagLen) :
          \E j \in i..(i + MaxSubtagLen) : tag[j] = 45

SLiteral_new_lang(txt, tag) ==
    IF is_valid_language_tag(tag)
    THEN Ok(SLiteral_new_lang_unchecked(txt, tag))
    ELSE Err([kind |-> "InvalidLanguageTag", tag |-> tag])

OLiteral_language(l) ==
    IF l.variant = "LanguageTaggedString" THEN Some(l.language) ELSE None

OLiteral_datatype(l) ==
    CASE l.variant = "String" -> NamedNode_new_unchecked(XSD_STRING)
      [] l.variant = "LanguageTaggedString" -> NamedNode_new_unchecked(RDF_LANG_STRING)
      [] l.variant = "TypedLiteral" -> l.datatype

OBlankNode_as_sophia_b(b) == SBlankNode_new_unchecked(OBlankNode_as_str(b))

NamedNode_as_sophia_i(n) == SIri_new_unchecked(n.iri, "", TRUE)

OLiteral_as_sophia_l(l) ==
    IF ~OLiteral_language(l).some
    THEN SLiteral_new_dt(l.value, NamedNode_as_sophia_i(OLiteral_datatype(l)))
    ELSE LET r == SLiteral_new_lang(l.value, OLiteral_language(l).val)
         IN  IF r.ok THEN r.val ELSE SLiteral_new_lang_unchecked(l.value, UND)

\* AsSophiaTerm::as_sophia for OTerm
as_sophia(t) ==
    CASE t.kind = "BlankNode" -> OBlankNode_as_sophia_b(t)
      [] t.kind = "Literal" -> OLiteral_as_sophia_l(t)
      [] t.kind = "NamedNode" -> NamedNode_as_sophia_i(t)

----------------------------------------------------------------------------
(* term.rs: Sophia to Oxigraph *)

ConversionError(kind, text) == [kind |-> kind, text |-> text]

\* Mutant of SBlankNode_try_oxigraphize: the identifier is never read as a
\* hexadecimal number, only copied into the 16 bytes.
SBlankNode_try_oxigraphize_NoHex(b) ==
    LET value == b.id
    IN  IF Len(value) <= U128_BYTES
        THEN Ok(OBlankNode_new_from_unique_id(transmute(zero_padded(value))))
        ELSE Err(ConversionError("IncompatibleBnodeId", value))

SBlankNode_try_oxigraphize(b) ==
    LET value == b.id
        parsed == from_str_radix(value)
    IN  IF parsed.ok THEN Ok(OBlankNode_new_from_unique_id(parsed.val))
        ELSE IF Len(value) <= U128_BYTES
             THEN Ok(OBlankNode_new_from_unique_id(transmute(zero_padded(value))))
        ELSE Err(ConversionError("IncompatibleBnodeId", value))

\* Mutant of SIri_try_oxigraphize: the suffix of the IRI is dropped.
SIri_try_oxigraphize_NsOnly(i) ==
    IF ~i.absolute THEN Err(ConversionError("RelativeIriRef", i.ns))
    ELSE Ok(NamedNode_new_unchecked(i.ns))

SIri_try_oxigraphize(i) ==
    LET value == SIri_value(i)
    IN  IF ~i.absolute THEN Err(ConversionError("RelativeIriRef", value))
        ELSE Ok(NamedNode_new_unchecked(value))

\* try_oxigraphize passing the language tag as it is
SLiteral_try_oxigraphize_KeepCase(l) ==
    LET value == l.txt
    IN  IF ~l.lang.some
        THEN LET dt == SIri_try_oxigraphize(l.dt)
             IN  IF dt.ok THEN Ok(OLiteral_new_typed_literal(value, dt.val)) ELSE dt
        ELSE Ok(OLiteral_new_language_tagged_literal_unchecked(value, l.lang.val))

SLiteral_try_oxigraphize(l) ==
    LET value == l.txt
    IN  IF ~l.lang.some
        THEN LET dt == SIri_try_oxigraphize(l.dt)
             IN  IF dt.ok THEN Ok(OLiteral_new_typed_literal(value, dt.val)) ELSE dt
        ELSE Ok(OLiteral_new_language_tagged_literal_unchecked(
                    value, to_ascii_lowercase(l.lang.val)))

\* impl TryOxigraphize<OTerm> for STerm
STerm_try_oxigraphize_OTerm(t) ==
    CASE t.kind = "BNode" -> SBlankNode_try_oxigraphize(t)
      [] t.kind = "Iri" -> SIri_try_oxigraphize(t)
      [] t.kind = "Literal" -> SLiteral_try_oxigraphize(t)
      [] t.kind = "Variable" -> Err(ConversionError("Variable", t.name))

\* impl TryOxigraphize<NamedOrBlankNode> for STerm
STerm_try_oxigraphize_NamedOrBlankNode(t) ==
    CASE t.kind = "BNode" -> SBlankNode_try_oxigraphize(t)
      [] t.kind = "Iri" -> SIri_try_oxigraphize(t)
      [] t.kind = "Literal" -> Err(ConversionError("Literal", t.txt))
      [] t.kind = "Variable" -> Err(ConversionError("Variable", t.name))

\* Mutant of STerm_try_oxigraphize_NamedNode: a blank node is converted as
\* it is for the subject.
STerm_try_oxigraphize_NamedNode_BNode(t) ==
    CASE t.kind = "BNode" -> SBlankNode_try_oxigraphize(t)
      [] t.kind = "Iri" -> SIri_try_oxigraphize(t)
      [] t.kind = "Literal" -> Err(ConversionError("Literal", t.txt))
      [] t.kind = "Variable" -> Err(ConversionError("Variable", t.name))

\* impl TryOxigraphize<NamedNode> for STerm
STerm_try_oxigraphize_NamedNode(t) ==
    CASE t.kind = "BNode" -> Err(ConversionError("BlankNode", t.id))
      [] t.kind = "Iri" -> SIri_try_oxigraphize(t)
      [] t.kind = "Literal" -> Err(ConversionError("Literal", t.txt))
      [] t.kind = "Variable" -> Err(ConversionError("Variable", t.name))

Positions == {"subject", "predicate", "object", "graph"}

\* The conversion the dataset methods apply to the term bound at a position
\* (the target type is fixed by the argument types of the backend call).
generic_to_native(t, pos) ==
    CASE pos = "subject" -> STerm_try_oxigraphize_NamedOrBlankNode(t)
      [] pos = "predicate" -> STerm_try_oxigraphize_NamedNode(t)
      [] pos = "object" -> STerm_try_oxigraphize_OTerm(t)
      [] pos = "graph" -> STerm_try_oxigraphize_NamedOrBlankNode(t)

----------------------------------------------------------------------------
(* once_toggle.rs: OnceToggle<T, U> { state1: RefCell<Option<T>>,           *)
(* state2: OnceCell<U> }.  An operation yields the cell after the call, the *)
(* value returned (None when the call panicked), whether f was invoked and  *)
(* whether the call panicked.                                               *)

OnceToggle_new(value) == [state1 |-> Some(value), state2 |-> None]

Returned(c, v, ran) == [cell |-> c, ret |-> Some(v), ran |-> ran, panic |-> FALSE]
Panicked(c, ran) == [cell |-> c, ret |-> None, ran |-> ran, panic |-> TRUE]

\* The conversion functions passed to a OnceToggle.  The result of a function
\* records the function and its argument; a failing function returns an error.
ConvFns == {"f", "g"}
TryFns == {"try_f", "try_fail"}
Apply(f, v) == IF f = "into_sophia" THEN into_sophia(v) ELSE [by |-> f, of |-> v]
TryApply(f, v) == IF f = "try_fail" THEN Err([by |-> f, of |-> v]) ELSE Ok([by |-> f, of |-> v])

\* state looking at state 1
OnceToggle_state_BySource(c) ==
    Returned(c, IF c.state1.some THEN 1 ELSE 2, FALSE)

OnceToggle_state(c) ==
    Returned(c, IF c.state2.some THEN 2 ELSE 1, FALSE)

OnceToggle_try_toggle(c, f) ==
    IF ~c.state1.some THEN Panicked(c, FALSE)
    ELSE LET taken == [c EXCEPT !.state1 = None]
             r == TryApply(f, c.state1.val)
         IN  IF ~r.ok THEN Returned(taken, r, TRUE)
             ELSE IF taken.state2.some THEN Panicked(taken, TRUE)
             ELSE Returned([taken EXCEPT !.state2 = Some(r.val)], Ok("unit"), TRUE)

\* toggle converting a copy of the state 1 value, which it leaves in place
OnceToggle_toggle_KeepsSource(c, f) ==
    IF ~c.state1.some THEN Panicked(c, FALSE)
    ELSE IF c.state2.some THEN Panicked(c, TRUE)
    ELSE Returned([c EXCEPT !.state2 = Some(Apply(f, c.state1.val))], "unit", TRUE)

OnceToggle_toggle(c, f) ==
    IF ~c.state1.some THEN Panicked(c, FALSE)
    ELSE LET taken == [c EXCEPT !.state1 = None]
         IN  IF taken.state2.some THEN Panicked(taken, TRUE)
             ELSE Returned([taken EXCEPT !.state2 = Some(Apply(f, c.state1.val))],
                           "unit", TRUE)

OnceToggle_get(c) ==
    IF c.state2.some THEN Returned(c, c.state2.val, FALSE) ELSE Panicked(c, FALSE)

\* The value a caller may assign through the reference get_mut returns.
WrittenValues == {[by |-> "caller", of |-> "written through get_mut"]}

\* get_mut: the reference to the state 2 value, through which the caller
\* assigns w (Some(value)) or nothing (None).
OnceToggle_get_mut(c, w) ==
    IF ~c.state2.some THEN Panicked(c, FALSE)
    ELSE Returned(IF w.some THEN [c EXCEPT !.state2 = w] ELSE c, c.state2.val, FALSE)

\* unwrap(self): the state 2 value; the OnceToggle is consumed by the call.
OnceToggle_unwrap(c) ==
    IF c.state2.some THEN Returned(c, c.state2.val, FALSE) ELSE Panicked(c, FALSE)

\* get_or_try_toggle that leaves the state 1 value in place when f fails
OnceToggle_get_or_try_toggle_Restores(c, f) ==
    IF c.state2.some THEN Returned(c, Ok(c.state2.val), FALSE)
    ELSE IF ~c.state1.some THEN Panicked(c, FALSE)
    ELSE LET taken == [c EXCEPT !.state1 = None]
             r == TryApply(f, c.state1.val)
         IN  IF r.ok THEN Returned([taken EXCEPT !.state2 = Some(r.val)], r, TRUE)
             ELSE Returned(c, r, TRUE)

OnceToggle_get_or_try_toggle(c, f) ==
    IF c.state2.some THEN Returned(c, Ok(c.state2.val), FALSE)
    ELSE IF ~c.state1.some THEN Panicked(c, FALSE)
    ELSE LET taken == [c EXCEPT !.state1 = None]
             r == TryApply(f, c.state1.val)
         IN  IF r.ok THEN Returned([taken EXCEPT !.state2 = Some(r.val)], r, TRUE)
             ELSE Returned(taken, r, TRUE)

\* Mutant of OnceToggle_get_or_toggle: state 2 is not looked at first.
OnceToggle_get_or_toggle_NoCache(c, f) ==
    IF ~c.state1.some THEN Panicked(c, FALSE)
    ELSE LET v == Apply(f, c.state1.val)
         IN  Returned([state1 |-> None, state2 |-> Some(v)], v, TRUE)

OnceToggle_get_or_toggle(c, f) ==
    IF c.state2.some THEN Returned(c, c.state2.val, FALSE)
    ELSE IF ~c.state1.some THEN Panicked(c, FALSE)
    ELSE LET v == Apply(f, c.state1.val)
         IN  Returned([state1 |-> None, state2 |-> Some(v)], v, TRUE)

----------------------------------------------------------------------------
(* CellSpec: one OnceToggle and the calls made on it *)

CellValues == {"t1", "t2"}

CellInit ==
    /\ endian = "little"
    /\ tterm = SVariable("x") /\ tpos = "subject" /\ tnative = None /\ tback = None
    /\ cinit \in CellValues
    /\ cell = OnceToggle_new(cinit)
    /\ hist = <<>>
    /\ sq = None /\ strace = <<>> /\ oquad = None /\ qb = None /\ qhist = <<>> /\ store = {} /\ last = None
    /\ nterm = None /\ npos = "subject" /\ ngeneric = None /\ nback = None

\* The OnceToggle has not been consumed by unwrap.
Alive == \A i \in 1..Len(hist) : hist[i].op # "unwrap"

\* A call: the cell becomes the cell after the call, and the call is recorded
\* with the cell before and after it.  No call follows unwrap.
Call(op, f, r) ==
    /\ Len(hist) < MaxCalls
    /\ Alive
    /\ cell' = r.cell
    /\ hist' = Append(hist, [op |-> op, f |-> f, ret |-> r.ret, ran |-> r.ran,
                             panic |-> r.panic, before |-> cell, after |-> r.cell])
    /\ UNCHANGED <<endian, termVars, cinit, scenarioVars, store, last, bridgeVars, nativeVars>>

state == Call("state", "none", OnceToggle_state(cell))

try_toggle == \E f \in TryFns : Call("try_toggle", f, OnceToggle_try_toggle(cell, f))

toggle == \E f \in ConvFns : Call("toggle", f, OnceToggle_toggle(cell, f))

get == Call("get", "none", OnceToggle_get(cell))

get_mut ==
    \E w \in {None} \cup {Some(v) : v \in WrittenValues} :
        Call("get_mut", IF w.some THEN "write" ELSE "none", OnceToggle_get_mut(cell, w))

unwrap == Call("unwrap", "none", OnceToggle_unwrap(cell))

get_or_try_toggle ==
    \E f \in TryFns : Call("get_or_try_toggle", f, OnceToggle_get_or_try_toggle(cell, f))

get_or_toggle ==
    \E f \in ConvFns : Call("get_or_toggle", f, OnceToggle_get_or_toggle(cell, f))

CellNext ==
    \/ state
    \/ try_toggle
    \/ toggle
    \/ get
    \/ get_mut
    \/ unwrap
    \/ get_or_try_toggle
    \/ get_or_toggle

CellSpec == CellInit /\ [][CellNext]_vars


----------------------------------------------------------------------------
(* quad.rs: QuadBridge, one OnceToggle per field of an Oxigraph quad *)

OQuad_new(s, p, o, g) == [s |-> s, p |-> p, o |-> o, g |-> g]

QuadBridge_new(q) ==
    [s |-> OnceToggle_new(q.s),
     p |-> OnceToggle_new(q.p),
     o |-> OnceToggle_new(q.o),
     g |-> IF q.g.some THEN Some(OnceToggle_new(q.g.val)) ELSE None]

\* s(), p(), o() and g(): the bridge after the call and the term returned.
QuadBridge_s(b) ==
    LET r == OnceToggle_get_or_toggle(b.s, "into_sophia")
    IN  [bridge |-> [b EXCEPT !.s = r.cell], ret |-> r.ret.val]

\* p() reading the cell of the subject
QuadBridge_p_ReadsSubject(b) ==
    LET r == OnceToggle_get_or_toggle(b.s, "into_sophia")
    IN  [bridge |-> [b EXCEPT !.s = r.cell], ret |-> r.ret.val]

QuadBridge_p(b) ==
    LET r == OnceToggle_get_or_toggle(b.p, "into_sophia")
    IN  [bridge |-> [b EXCEPT !.p = r.cell], ret |-> r.ret.val]

QuadBridge_o(b) ==
    LET r == OnceToggle_get_or_toggle(b.o, "into_sophia")
    IN  [bridge |-> [b EXCEPT !.o = r.cell], ret |-> r.ret.val]

QuadBridge_g(b) ==
    IF b.g.some
    THEN LET r == OnceToggle_get_or_toggle(b.g.val, "into_sophia")
         IN  [bridge |-> [b EXCEPT !.g = Some(r.cell)], ret |-> Some(r.ret.val)]
    ELSE [bridge |-> b, ret |-> None]

----------------------------------------------------------------------------
(* BridgeSpec: one QuadBridge and the accessors called on it *)

MaxAccesses == 4

\* The 128-bit id 1
BridgeId == Repeat(0, U128_HEX_DIGITS - 1) \o <<1>>

BridgeSubjects ==
    {NamedNode_new_unchecked("http://ex/a"),
     OBlankNode_new_from_unique_id(BridgeId)}

BridgePredicates == {NamedNode_new_unchecked("http://ex/b")}

BridgeObjects ==
    {NamedNode_new_unchecked("http://ex/a"),
     OBlankNode_new_from_unique_id(BridgeId),
     OLiteral_new_typed_literal("42",
         NamedNode_new_unchecked("http://www.w3.org/2001/XMLSchema#integer")),
     OLiteral_new_language_tagged_literal_unchecked("chat", <<101, 110>>)}

BridgeGraphNames ==
    {None, Some(NamedNode_new_unchecked("http://ex/b")),
     Some(OBlankNode_new_from_unique_id(BridgeId))}

BridgeInit ==
    /\ endian = "little"
    /\ tterm = SVariable("x") /\ tpos = "subject" /\ tnative = None /\ tback = None
    /\ cinit = "t1" /\ cell = OnceToggle_new(cinit) /\ hist = <<>>
    /\ sq = None /\ strace = <<>> /\ store = {} /\ last = None
    /\ oquad \in {OQuad_new(s, p, o, g) :
                     s \in BridgeSubjects, p \in BridgePredicates,
                     o \in BridgeObjects, g \in BridgeGraphNames}
    /\ qb = QuadBridge_new(oquad)
    /\ qhist = <<>>
    /\ nterm = None /\ npos = "subject" /\ ngeneric = None /\ nback = None

\* An accessor is called: the bridge becomes the bridge after the call.
Access(field, r) ==
    /\ Len(qhist) < MaxAccesses
    /\ qb' = r.bridge
    /\ qhist' = Append(qhist, [op |-> field, before |-> qb, ret |-> r.ret])
    /\ UNCHANGED <<endian, termVars, cellVars, scenarioVars, oquad, store, last, nativeVars>>

bridge_s == Access("s", QuadBridge_s(qb))

bridge_p == Access("p", QuadBridge_p(qb))

bridge_o == Access("o", QuadBridge_o(qb))

bridge_g == Access("g", QuadBridge_g(qb))

BridgeNext == bridge_s \/ bridge_p \/ bridge_o \/ bridge_g

BridgeSpec == BridgeInit /\ [][BridgeNext]_vars

----------------------------------------------------------------------------
(* The backend: an Oxigraph RepositoryConnection on a store, the set of the *)
(* quads of the repository.  A call may fail with an OxigraphError.         *)

OxigraphError == "OxigraphError"

BackendOutcomes == {"ok", "err"}

\* The quads of the store a pattern selects.  s, p and o are None (any) or
\* Some(term); g is None (any graph), Some(None) (the default graph) or
\* Some(Some(name)).
Matches(st, s, p, o, g) ==
    {q \in st :
        /\ s.some => q.s = s.val
        /\ p.some => q.p = p.val
        /\ o.some => q.o = o.val
        /\ g.some => q.g = g.val}

Enumerations(S) ==
    {e \in [1..Cardinality(S) -> S] : \A i, j \in 1..Cardinality(S) : e[i] = e[j] => i = j}

InsertAt(seq, i, x) == SubSeq(seq, 1, i - 1) \o <<x>> \o SubSeq(seq, i, Len(seq))

\* RepositoryConnection::quads_for_pattern: what the iterator may yield, the
\* selected quads in some order, possibly with an error among them.
RepositoryConnection_quads_for_pattern(st, s, p, o, g) ==
    LET oks == {[i \in 1..Len(e) |-> Ok(e[i])] : e \in Enumerations(Matches(st, s, p, o, g))}
    IN  oks \cup {InsertAt(e, i, Err(OxigraphError)) : e \in oks, i \in 1..(Cardinality(Matches(st, s, p, o, g)) + 1)}

RepositoryConnection_contains(st, q, bk) ==
    IF bk = "err" THEN Err(OxigraphError) ELSE Ok(q \in st)

\* RepositoryConnection::insert and remove: the result and the store after.
RepositoryConnection_insert(st, q, bk) ==
    IF bk = "err" THEN [ret |-> Err(OxigraphError), store |-> st]
    ELSE [ret |-> Ok("unit"), store |-> st \cup {q}]

RepositoryConnection_remove(st, q, bk) ==
    IF bk = "err" THEN [ret |-> Err(OxigraphError), store |-> st]
    ELSE [ret |-> Ok("unit"), store |-> st \ {q}]

----------------------------------------------------------------------------
(* connection.rs: Dataset and MutableDataset for SophiaConnection.  An       *)
(* operation yields the set of its possible outcomes (one per choice of the  *)
(* backend): the value returned, the store after the call, the calls made on *)
(* the backend, and whether the backend failed.                              *)
(* A call on the backend is recorded with its arguments and, for a range     *)
(* scan, the sequence `out` the backend's iterator yields.                   *)

Outcome(ret, st, calls, bk) == [ret |-> ret, store |-> st, calls |-> calls, bk |-> bk]

MutationError(kind, source) == [kind |-> kind, source |-> source]

bridge(r) == IF r.ok THEN Ok(QuadBridge_new(r.val)) ELSE r

try_oxi_graphname(g) ==
    IF g.some
    THEN LET r == STerm_try_oxigraphize_NamedOrBlankNode(g.val)
         IN  IF r.ok THEN Ok(Some(r.val)) ELSE r
    ELSE Ok(None)

\* Box::new(empty())
EmptySource(st) == {Outcome(<<>>, st, <<>>, "ok")}

\* Box::new(self.0.quads_for_pattern(s, p, o, g).map(bridge))
BridgedSource(st, s, p, o, g) ==
    {Outcome([i \in 1..Len(out) |-> bridge(out[i])], st,
             <<[fn |-> "quads_for_pattern", s |-> s, p |-> p, o |-> o, g |-> g,
                out |-> out]>>,
             IF \E i \in 1..Len(out) : ~out[i].ok THEN "err" ELSE "ok") :
        out \in RepositoryConnection_quads_for_pattern(st, s, p, o, g)}

SophiaConnection_quads(st) == BridgedSource(st, None, None, None, None)

\* quads_with_s scanning every subject
SophiaConnection_quads_with_s_AnySubject(st, s) ==
    LET rs == STerm_try_oxigraphize_NamedOrBlankNode(s)
    IN  IF rs.ok THEN BridgedSource(st, None, None, None, None)
        ELSE EmptySource(st)

SophiaConnection_quads_with_s(st, s) ==
    LET rs == STerm_try_oxigraphize_NamedOrBlankNode(s)
    IN  IF rs.ok THEN BridgedSource(st, Some(rs.val), None, None, None)
        ELSE EmptySource(st)

SophiaConnection_quads_with_p(st, p) ==
    LET rp == STerm_try_oxigraphize_NamedNode(p)
    IN  IF rp.ok THEN BridgedSource(st, None, Some(rp.val), None, None)
        ELSE EmptySource(st)

SophiaConnection_quads_with_o(st, o) ==
    LET ro == STerm_try_oxigraphize_OTerm(o)
    IN  IF ro.ok THEN BridgedSource(st, None, None, Some(ro.val), None)
        ELSE EmptySource(st)

\* quads_with_g taking "no graph name" for "any graph"
SophiaConnection_quads_with_g_NoneIsAny(st, g) ==
    LET rg == try_oxi_graphname(g)
    IN  IF rg.ok
        THEN BridgedSource(st, None, None, None,
                           IF rg.val.some THEN Some(rg.val) ELSE None)
        ELSE EmptySource(st)

SophiaConnection_quads_with_g(st, g) ==
    LET rg == try_oxi_graphname(g)
    IN  IF rg.ok THEN BridgedSource(st, None, None, None, Some(rg.val))
        ELSE EmptySource(st)

\* quads_with_sp taking a predicate that does not convert for "any predicate"
SophiaConnection_quads_with_sp_LenientP(st, s, p) ==
    LET rs == STerm_try_oxigraphize_NamedOrBlankNode(s)
        rp == STerm_try_oxigraphize_NamedNode(p)
    IN  IF rs.ok
        THEN BridgedSource(st, Some(rs.val), IF rp.ok THEN Some(rp.val) ELSE None, None, None)
        ELSE EmptySource(st)

SophiaConnection_quads_with_sp(st, s, p) ==
    LET rs == STerm_try_oxigraphize_NamedOrBlankNode(s)
        rp == STerm_try_oxigraphize_NamedNode(p)
    IN  IF rs.ok /\ rp.ok THEN BridgedSource(st, Some(rs.val), Some(rp.val), None, None)
        ELSE EmptySource(st)

SophiaConnection_quads_with_so(st, s, o) ==
    LET rs == STerm_try_oxigraphize_NamedOrBlankNode(s)
        ro == STerm_try_oxigraphize_OTerm(o)
    IN  IF rs.ok /\ ro.ok THEN BridgedSource(st, Some(rs.val), None, Some(ro.val), None)
        ELSE EmptySource(st)

SophiaConnection_quads_with_sg(st, s, g) ==
    LET rs == STerm_try_oxigraphize_NamedOrBlankNode(s)
        rg == try_oxi_graphname(g)
    IN  IF rs.ok /\ rg.ok THEN BridgedSource(st, Some(rs.val), None, None, Some(rg.val))
        ELSE EmptySource(st)

SophiaConnection_quads_with_po(st, p, o) ==
    LET rp == STerm_try_oxigraphize_NamedNode(p)
        ro == STerm_try_oxigraphize_OTerm(o)
    IN  IF rp.ok /\ ro.ok THEN BridgedSource(st, None, Some(rp.val), Some(ro.val), None)
        ELSE EmptySource(st)

SophiaConnection_quads_with_pg(st, p, g) ==
    LET rp == STerm_try_oxigraphize_NamedNode(p)
        rg == try_oxi_graphname(g)
    IN  IF rp.ok /\ rg.ok THEN BridgedSource(st, None, Some(rp.val), None, Some(rg.val))
        ELSE EmptySource(st)

SophiaConnection_quads_with_og(st, o, g) ==
    LET ro == STerm_try_oxigraphize_OTerm(o)
        rg == try_oxi_graphname(g)
    IN  IF ro.ok /\ rg.ok THEN BridgedSource(st, None, None, Some(ro.val), Some(rg.val))
        ELSE EmptySource(st)

SophiaConnection_quads_with_spo(st, s, p, o) ==
    LET rs == STerm_try_oxigraphize_NamedOrBlankNode(s)
        rp == STerm_try_oxigraphize_NamedNode(p)
        ro == STerm_try_oxigraphize_OTerm(o)
    IN  IF rs.ok /\ rp.ok /\ ro.ok
        THEN BridgedSource(st, Some(rs.val), Some(rp.val), Some(ro.val), None)
        ELSE EmptySource(st)

SophiaConnection_quads_with_spg(st, s, p, g) ==
    LET rs == STerm_try_oxigraphize_NamedOrBlankNode(s)
        rp == STerm_try_oxigraphize_NamedNode(p)
        rg == try_oxi_graphname(g)
    IN  IF rs.ok /\ rp.ok /\ rg.ok
        THEN BridgedSource(st, Some(rs.val), Some(rp.val), None, Some(rg.val))
        ELSE EmptySource(st)

SophiaConnection_quads_with_sog(st, s, o, g) ==
    LET rs == STerm_try_oxigraphize_NamedOrBlankNode(s)
        ro == STerm_try_oxigraphize_OTerm(o)
        rg == try_oxi_graphname(g)
    IN  IF rs.ok /\ ro.ok /\ rg.ok
        THEN BridgedSource(st, Some(rs.val), None, Some(ro.val), Some(rg.val))
        ELSE EmptySource(st)

SophiaConnection_quads_with_pog(st, p, o, g) ==
    LET rp == STerm_try_oxigraphize_NamedNode(p)
        ro == STerm_try_oxigraphize_OTerm(o)
        rg == try_oxi_graphname(g)
    IN  IF rp.ok /\ ro.ok /\ rg.ok
        THEN BridgedSource(st, None, Some(rp.val), Some(ro.val), Some(rg.val))
        ELSE EmptySource(st)

SophiaConnection_quads_with_spog(st, s, p, o, g) ==
    LET rs == STerm_try_oxigraphize_NamedOrBlankNode(s)
        rp == STerm_try_oxigraphize_NamedNode(p)
        ro == STerm_try_oxigraphize_OTerm(o)
        rg == try_oxi_graphname(g)
    IN  IF rs.ok /\ rp.ok /\ ro.ok /\ rg.ok
        THEN BridgedSource(st, Some(rs.val), Some(rp.val), Some(ro.val), Some(rg.val))
        ELSE EmptySource(st)

\* contains taking a graph name that does not convert for the default graph
SophiaConnection_contains_DefaultGraph(st, s, p, o, g) ==
    LET rs == STerm_try_oxigraphize_NamedOrBlankNode(s)
        rp == STerm_try_oxigraphize_NamedNode(p)
        ro == STerm_try_oxigraphize_OTerm(o)
        rg == try_oxi_graphname(g)
    IN  IF rs.ok /\ rp.ok /\ ro.ok
        THEN LET q == OQuad_new(rs.val, rp.val, ro.val, IF rg.ok THEN rg.val ELSE None)
             IN  {Outcome(RepositoryConnection_contains(st, q, bk), st,
                          <<[fn |-> "contains", quad |-> q]>>, bk) :
                     bk \in BackendOutcomes}
        ELSE {Outcome(Ok(FALSE), st, <<>>, "ok")}

SophiaConnection_contains(st, s, p, o, g) ==
    LET rs == STerm_try_oxigraphize_NamedOrBlankNode(s)
        rp == STerm_try_oxigraphize_NamedNode(p)
        ro == STerm_try_oxigraphize_OTerm(o)
        rg == try_oxi_graphname(g)
    IN  IF rs.ok /\ rp.ok /\ ro.ok /\ rg.ok
        THEN LET q == OQuad_new(rs.val, rp.val, ro.val, rg.val)
             IN  {Outcome(RepositoryConnection_contains(st, q, bk), st,
                          <<[fn |-> "contains", quad |-> q]>>, bk) :
                     bk \in BackendOutcomes}
        ELSE {Outcome(Ok(FALSE), st, <<>>, "ok")}

\* insert reporting whether the quad was added
SophiaConnection_insert_ReportsChange(st, s, p, o, g) ==
    LET rs == STerm_try_oxigraphize_NamedOrBlankNode(s)
        rp == STerm_try_oxigraphize_NamedNode(p)
        ro == STerm_try_oxigraphize_OTerm(o)
        rg == try_oxi_graphname(g)
        failed(r) == {Outcome(Err(MutationError("Conversion", r.err)), st, <<>>, "ok")}
    IN  IF ~rs.ok THEN failed(rs)
        ELSE IF ~rp.ok THEN failed(rp)
        ELSE IF ~ro.ok THEN failed(ro)
        ELSE IF ~rg.ok THEN failed(rg)
        ELSE LET q == OQuad_new(rs.val, rp.val, ro.val, rg.val)
             IN  {LET w == RepositoryConnection_insert(st, q, bk)
                  IN  Outcome(IF w.ret.ok THEN Ok(q \notin st)
                              ELSE Err(MutationError("Oxigraph", w.ret.err)),
                              w.store, <<[fn |-> "insert", quad |-> q]>>, bk) :
                     bk \in BackendOutcomes}

\* insert with the policy of remove: a conversion failure gives Ok(false)
SophiaConnection_insert_Swallow(st, s, p, o, g) ==
    LET rs == STerm_try_oxigraphize_NamedOrBlankNode(s)
        rp == STerm_try_oxigraphize_NamedNode(p)
        ro == STerm_try_oxigraphize_OTerm(o)
        rg == try_oxi_graphname(g)
    IN  IF rs.ok /\ rp.ok /\ ro.ok /\ rg.ok
        THEN LET q == OQuad_new(rs.val, rp.val, ro.val, rg.val)
             IN  {LET w == RepositoryConnection_insert(st, q, bk)
                  IN  Outcome(IF w.ret.ok THEN Ok(TRUE)
                              ELSE Err(MutationError("Oxigraph", w.ret.err)),
                              w.store, <<[fn |-> "insert", quad |-> q]>>, bk) :
                     bk \in BackendOutcomes}
        ELSE {Outcome(Ok(FALSE), st, <<>>, "ok")}

SophiaConnection_insert(st, s, p, o, g) ==
    LET rs == STerm_try_oxigraphize_NamedOrBlankNode(s)
        rp == STerm_try_oxigraphize_NamedNode(p)
        ro == STerm_try_oxigraphize_OTerm(o)
        rg == try_oxi_graphname(g)
        failed(r) == {Outcome(Err(MutationError("Conversion", r.err)), st, <<>>, "ok")}
    IN  IF ~rs.ok THEN failed(rs)
        ELSE IF ~rp.ok THEN failed(rp)
        ELSE IF ~ro.ok THEN failed(ro)
        ELSE IF ~rg.ok THEN failed(rg)
        ELSE LET q == OQuad_new(rs.val, rp.val, ro.val, rg.val)
             IN  {LET w == RepositoryConnection_insert(st, q, bk)
                  IN  Outcome(IF w.ret.ok THEN Ok(TRUE)
                              ELSE Err(MutationError("Oxigraph", w.ret.err)),
                              w.store, <<[fn |-> "insert", quad |-> q]>>, bk) :
                     bk \in BackendOutcomes}

\* remove with the policy of insert: a conversion failure is propagated
SophiaConnection_remove_Propagate(st, s, p, o, g) ==
    LET rs == STerm_try_oxigraphize_NamedOrBlankNode(s)
        rp == STerm_try_oxigraphize_NamedNode(p)
        ro == STerm_try_oxigraphize_OTerm(o)
        rg == try_oxi_graphname(g)
        failed(r) == {Outcome(Err(MutationError("Conversion", r.err)), st, <<>>, "ok")}
    IN  IF ~rs.ok THEN failed(rs)
        ELSE IF ~rp.ok THEN failed(rp)
        ELSE IF ~ro.ok THEN failed(ro)
        ELSE IF ~rg.ok THEN failed(rg)
        ELSE LET q == OQuad_new(rs.val, rp.val, ro.val, rg.val)
             IN  {LET w == RepositoryConnection_remove(st, q, bk)
                  IN  Outcome(IF w.ret.ok THEN Ok(TRUE)
                              ELSE Err(MutationError("Oxigraph", w.ret.err)),
                              w.store, <<[fn |-> "remove", quad |-> q]>>, bk) :
                     bk \in BackendOutcomes}

SophiaConnection_remove(st, s, p, o, g) ==
    LET rs == STerm_try_oxigraphize_NamedOrBlankNode(s)
        rp == STerm_try_oxigraphize_NamedNode(p)
        ro == STerm_try_oxigraphize_OTerm(o)
        rg == try_oxi_graphname(g)
    IN  IF rs.ok /\ rp.ok /\ ro.ok /\ rg.ok
        THEN LET q == OQuad_new(rs.val, rp.val, ro.val, rg.val)
             IN  {LET w == RepositoryConnection_remove(st, q, bk)
                  IN  Outcome(IF w.ret.ok THEN Ok(TRUE)
                              ELSE Err(MutationError("Oxigraph", w.ret.err)),
                              w.store, <<[fn |-> "remove", quad |-> q]>>, bk) :
                     bk \in BackendOutcomes}
        ELSE {Outcome(Ok(FALSE), st, <<>>, "ok")}

----------------------------------------------------------------------------
(* connection.rs: the aggregate extractors.  Each prepares and executes one *)
(* SELECT DISTINCT query of one variable: a union of patterns, on the       *)
(* default graph or on the named graphs (GRAPH ?x { .. }), and a filter on  *)
(* the kind of the term selected.  A pattern is given here as               *)
(* <<scope, position of the selected variable>>.                            *)

SUBJECTS_QUERY ==
    [text |-> "SELECT DISTINCT ?s {{?s ?p ?o} UNION { GRAPH ?g {?s ?p ?o}}}",
     union |-> {<<"default", "s">>, <<"named", "s">>},
     filter |-> "none"]

PREDICATES_QUERY ==
    [text |-> "SELECT DISTINCT ?p {{?s ?p ?o} UNION { GRAPH ?g {?s ?p ?o}}}",
     union |-> {<<"default", "p">>, <<"named", "p">>},
     filter |-> "none"]

OBJECTS_QUERY ==
    [text |-> "SELECT DISTINCT ?o {{?s ?p ?o} UNION { GRAPH ?g {?s ?p ?o}}}",
     union |-> {<<"default", "o">>, <<"named", "o">>},
     filter |-> "none"]

GRAPH_NAMES_QUERY ==
    [text |-> "SELECT DISTINCT ?g {GRAPH ?g {?s ?p ?o}}",
     union |-> {<<"named", "g">>},
     filter |-> "none"]

IRIS_QUERY ==
    [text |-> "SELECT DISTINCT ?iri {{?iri ?p ?o} UNION {?s ?iri ?o} UNION {?s ?p ?iri} UNION {GRAPH ?iri {?s ?p ?o}} UNION {GRAPH ?s {?iri ?p ?o}} UNION {GRAPH ?g {?s ?iri ?o}} UNION {GRAPH ?g {?s ?p ?iri}} FILTER isIRI(?iri)}",
     union |-> {<<"default", "s">>, <<"default", "p">>, <<"default", "o">>,
                <<"named", "g">>, <<"named", "s">>, <<"named", "p">>, <<"named", "o">>},
     filter |-> "NamedNode"]

BNODES_QUERY ==
    [text |-> "SELECT DISTINCT ?bn {{?bn ?p ?o} UNION {?s ?p ?bn} UNION {GRAPH ?bn {?s ?p ?o}} UNION {GRAPH ?s {?bn ?p ?o}} UNION {GRAPH ?g {?s ?p ?bn}} FILTER isBlank(?bn)}",
     union |-> {<<"default", "s">>, <<"default", "o">>,
                <<"named", "g">>, <<"named", "s">>, <<"named", "o">>},
     filter |-> "BlankNode"]

LITERALS_QUERY ==
    [text |-> "SELECT DISTINCT ?lit {{?s ?p ?lit} UNION { GRAPH ?g {?s ?p ?lit}} FILTER isLiteral(?lit)}",
     union |-> {<<"default", "o">>, <<"named", "o">>},
     filter |-> "Literal"]

\* The terms a pattern binds its selected variable to.
Bindings(st, pattern) ==
    LET scope == pattern[1]
        pos == pattern[2]
        quads_in_scope == {q \in st : q.g.some <=> scope = "named"}
    IN  {CASE pos = "s" -> q.s
           [] pos = "p" -> q.p
           [] pos = "o" -> q.o
           [] pos = "g" -> q.g.val : q \in quads_in_scope}

\* The distinct values of the selected variable.
Solutions(st, query) ==
    {v \in UNION {Bindings(st, pattern) : pattern \in query.union} :
        query.filter = "none" \/ v.kind = query.filter}

\* Where the backend fails in the evaluation of a query, if it does.
QueryOutcomes == {"ok", "prepare_query", "exec", "into_values_iter"}

RepositoryConnection_prepare_query(query, bk) ==
    IF bk = "prepare_query" THEN Err(OxigraphError) ELSE Ok(query)

\* PreparedQuery::exec: QueryResult::Bindings, an iterator on the solutions
\* that may yield an error.
PreparedQuery_exec(st, query, bk) ==
    IF bk = "exec" THEN Err(OxigraphError)
    ELSE Ok([values |-> Solutions(st, query), failing |-> bk = "into_values_iter"])

\* collect() into Result<HashSet<Term<String>>, _>: the first error, or the
\* set of the terms.
sparql_result_as_term_set(r) ==
    IF r.failing THEN Err(OxigraphError)
    ELSE Ok({as_sophia(v) : v \in r.values})

\* prepare_query(..)?, exec()?, sparql_result_as_term_set(r)
TermSetByQuery(st, query) ==
    {LET q == RepositoryConnection_prepare_query(query.text, bk)
         r == PreparedQuery_exec(st, query, bk)
     IN  IF ~q.ok
         THEN Outcome(q, st, <<[fn |-> "prepare_query", query |-> query.text]>>, "err")
         ELSE IF ~r.ok
         THEN Outcome(r, st, <<[fn |-> "prepare_query", query |-> query.text],
                               [fn |-> "exec"]>>, "err")
         ELSE Outcome(sparql_result_as_term_set(r.val), st,
                      <<[fn |-> "prepare_query", query |-> query.text], [fn |-> "exec"]>>,
                      IF bk = "ok" THEN "ok" ELSE "err") :
        bk \in QueryOutcomes}

SophiaConnection_subjects(st) == TermSetByQuery(st, SUBJECTS_QUERY)

SophiaConnection_predicates(st) == TermSetByQuery(st, PREDICATES_QUERY)

SophiaConnection_objects(st) == TermSetByQuery(st, OBJECTS_QUERY)

SophiaConnection_graph_names(st) == TermSetByQuery(st, GRAPH_NAMES_QUERY)

SophiaConnection_iris(st) == TermSetByQuery(st, IRIS_QUERY)

SophiaConnection_bnodes(st) == TermSetByQuery(st, BNODES_QUERY)

SophiaConnection_literals(st) == TermSetByQuery(st, LITERALS_QUERY)

\* Ok(HashSet::new())
SophiaConnection_variables(st) == {Outcome(Ok({}), st, <<>>, "ok")}

----------------------------------------------------------------------------
(* The Sophia terms the model converts *)

\* "hello", "67" and "g" (the byte 0x67)
IdHello == <<104, 101, 108, 108, 111>>
Id67 == <<54, 55>>

\* '0', '1', 'F', 'a', 'g' repeated, after nothing, "0", "1" or "+"
BnodeIds ==
    {pre \o Repeat(c, n) :
        pre \in {<<>>, <<48>>, <<49>>, <<43>>}, c \in {48, 49, 70, 97, 103},
        n \in 0..MaxIdLen}
    \cup {IdHello, Id67}

IriTerms ==
    {SIri_new_unchecked("http://ex/a", "", TRUE),
     SIri_new_unchecked("http://ex/", "b", TRUE),
     SIri_new_unchecked("urn:x", "", TRUE),
     SIri_new_unchecked("../rel", "", FALSE),
     SIri_new_unchecked("", "frag", FALSE)}

\* "en", "EN", "fr-BE"
LangTags == {<<101, 110>>, <<69, 78>>, <<102, 114, 45, 66, 69>>}

LiteralTerms ==
    {SLiteral_new_dt(v, dt) : v \in {"42", ""}, dt \in IriTerms \cup
        {SIri_new_unchecked(XSD_STRING, "", TRUE),
         SIri_new_unchecked("http://www.w3.org/2001/XMLSchema#", "integer", TRUE)}}
    \cup {SLiteral_new_lang_unchecked(v, tag) : v \in {"chat", ""}, tag \in LangTags}

GenericTerms ==
    IriTerms \cup LiteralTerms \cup {SVariable("x")}
    \cup {SBlankNode_new_unchecked(id) : id \in BnodeIds}

----------------------------------------------------------------------------
(* TermSpec: one term, converted for one position and back *)

TermInit ==
    /\ endian \in {"little", "big"}
    /\ tterm \in GenericTerms
    /\ tpos \in Positions
    /\ tnative = None
    /\ tback = None
    /\ cinit = "t1" /\ cell = OnceToggle_new(cinit) /\ hist = <<>>
    /\ sq = None /\ strace = <<>> /\ oquad = None /\ qb = None /\ qhist = <<>> /\ store = {} /\ last = None
    /\ nterm = None /\ npos = "subject" /\ ngeneric = None /\ nback = None

try_oxigraphize ==
    /\ tnative = None
    /\ tnative' = Some(generic_to_native(tterm, tpos))
    /\ UNCHANGED <<endian, tterm, tpos, tback, cellVars, scenarioVars, store, last, bridgeVars, nativeVars>>

IntoSophia ==
    /\ tnative.some /\ tnative.val.ok
    /\ tback = None
    /\ tback' = Some(into_sophia(tnative.val.val))
    /\ UNCHANGED <<endian, tterm, tpos, tnative, cellVars, scenarioVars, store, last, bridgeVars, nativeVars>>

TermNext == try_oxigraphize \/ IntoSophia

TermSpec == TermInit /\ [][TermNext]_vars----------------------------------------------------------------------------
(* NativeSpec: one term of a stored quad, handed to the caller by a bridge  *)
(* accessor and passed back as the argument bound at the same position      *)

NativeIris ==
    {NamedNode_new_unchecked(i) : i \in {"http://ex/a", "http://ex/b", "urn:x"}}

\* The 128-bit ids: one digit repeated in the low positions, and one digit
\* followed by zeros (0, 1, 2^64, 2^124, 2^128 - 1 among them).
NativeIds ==
    {Repeat(0, U128_HEX_DIGITS - n) \o Repeat(c, n) :
        c \in {1, 10, 15}, n \in 0..U128_HEX_DIGITS}
    \cup {Repeat(0, U128_HEX_DIGITS - n) \o <<c>> \o Repeat(0, n - 1) :
        c \in {1, 10, 15}, n \in 1..U128_HEX_DIGITS}

NativeBlankNodes == {OBlankNode_new_from_unique_id(id) : id \in NativeIds}

\* "en", "fr-be", "_"
LowerCaseTags == {<<101, 110>>, <<102, 114, 45, 98, 101>>, <<95>>}

NativeLiterals ==
    {OLiteral_new_typed_literal(v, NamedNode_new_unchecked(dt)) :
        v \in {"42", ""},
        dt \in {XSD_STRING, RDF_LANG_STRING, "http://ex/a",
                "http://www.w3.org/2001/XMLSchema#integer"}}
    \cup {OLiteral_new_language_tagged_literal_unchecked(v, tag) :
        v \in {"chat", ""}, tag \in LowerCaseTags}

\* The terms Oxigraph's quad type admits at a position.
NativeTermsAt(pos) ==
    CASE pos = "subject" -> NativeIris \cup NativeBlankNodes
      [] pos = "predicate" -> NativeIris
      [] pos = "object" -> NativeIris \cup NativeBlankNodes \cup NativeLiterals
      [] pos = "graph" -> NativeIris \cup NativeBlankNodes

NativeInit ==
    /\ endian \in {"little", "big"}
    /\ npos \in Positions
    /\ nterm \in NativeTermsAt(npos)
    /\ ngeneric = None
    /\ nback = None
    /\ tterm = SVariable("x") /\ tpos = "subject" /\ tnative = None /\ tback = None
    /\ cinit = "t1" /\ cell = OnceToggle_new(cinit) /\ hist = <<>>
    /\ sq = None /\ strace = <<>> /\ oquad = None /\ qb = None /\ qhist = <<>>
    /\ store = {} /\ last = None

\* QuadBridge::s, p, o, g: the stored term is handed over as a Sophia term.
native_to_generic ==
    /\ ngeneric = None
    /\ ngeneric' = Some(into_sophia(nterm))
    /\ UNCHANGED <<endian, termVars, cellVars, scenarioVars, store, last, bridgeVars, nterm, npos, nback>>

\* The caller passes that term back as the argument bound at the position.
native_back ==
    /\ ngeneric.some
    /\ nback = None
    /\ nback' = Some(generic_to_native(ngeneric.val, npos))
    /\ UNCHANGED <<endian, termVars, cellVars, scenarioVars, store, last, bridgeVars, nterm, npos, ngeneric>>

NativeNext == native_to_generic \/ native_back

NativeSpec == NativeInit /\ [][NativeNext]_vars



----------------------------------------------------------------------------
(* Spec: a SophiaConnection used by one caller.  A call is made when the    *)
(* result of the previous one has been dropped; `last` holds the call just  *)
(* made: its name and arguments, the store before it and its outcome.       *)

IriA == SIri_new_unchecked("http://ex/a", "", TRUE)
IriB == SIri_new_unchecked("http://ex/", "b", TRUE)
IriRel == SIri_new_unchecked("../rel", "", FALSE)
Bn1 == SBlankNode_new_unchecked(<<49>>)
BnHello == SBlankNode_new_unchecked(IdHello)
BnLong == SBlankNode_new_unchecked(Repeat(103, U128_BYTES + 1))
Lit42 == SLiteral_new_dt("42", SIri_new_unchecked("http://www.w3.org/2001/XMLSchema#", "integer", TRUE))
LitRelDt == SLiteral_new_dt("42", IriRel)
VarX == SVariable("x")

\* The terms passed at each position: some that convert there, some that do not.
SubjectArgs == {IriA, BnHello, Lit42, VarX, BnLong, IriRel}
PredicateArgs == {IriB, Bn1, Lit42, VarX, IriRel}
ObjectArgs == {IriA, Lit42, VarX, LitRelDt, BnLong}
GraphArgs == {None, Some(IriA), Some(Lit42), Some(VarX), Some(IriRel)}

\* The argument of a position the operation does not take.
Unbound == "unbound"

SpecInit ==
    /\ endian \in {"little", "big"}
    /\ tterm = SVariable("x") /\ tpos = "subject" /\ tnative = None /\ tback = None
    /\ cinit = "t1" /\ cell = OnceToggle_new(cinit) /\ hist = <<>>
    /\ sq = None /\ strace = <<>> /\ oquad = None /\ qb = None /\ qhist = <<>>
    /\ nterm = None /\ npos = "subject" /\ ngeneric = None /\ nback = None
    /\ store = {}
    /\ last = None

\* The call `op` on (s, p, o, g) with outcome r.
Does(op, s, p, o, g, r) ==
    /\ Cardinality(r.store) <= MaxStore
    /\ store' = r.store
    /\ last' = Some([op |-> op, s |-> s, p |-> p, o |-> o, g |-> g, pre |-> store,
                     ret |-> r.ret, calls |-> r.calls, bk |-> r.bk])
    /\ UNCHANGED <<endian, termVars, cellVars, scenarioVars, bridgeVars, nativeVars>>

Idle == last = None

quads ==
    /\ Idle
    /\ \E r \in SophiaConnection_quads(store) :
        Does("quads", Unbound, Unbound, Unbound, Unbound, r)

quads_with_s ==
    /\ Idle
    /\ \E s \in SubjectArgs : \E r \in SophiaConnection_quads_with_s(store, s) :
        Does("quads_with_s", s, Unbound, Unbound, Unbound, r)

quads_with_p ==
    /\ Idle
    /\ \E p \in PredicateArgs : \E r \in SophiaConnection_quads_with_p(store, p) :
        Does("quads_with_p", Unbound, p, Unbound, Unbound, r)

quads_with_o ==
    /\ Idle
    /\ \E o \in ObjectArgs : \E r \in SophiaConnection_quads_with_o(store, o) :
        Does("quads_with_o", Unbound, Unbound, o, Unbound, r)

quads_with_g ==
    /\ Idle
    /\ \E g \in GraphArgs : \E r \in SophiaConnection_quads_with_g(store, g) :
        Does("quads_with_g", Unbound, Unbound, Unbound, g, r)

quads_with_sp ==
    /\ Idle
    /\ \E s \in SubjectArgs, p \in PredicateArgs :
        \E r \in SophiaConnection_quads_with_sp(store, s, p) :
            Does("quads_with_sp", s, p, Unbound, Unbound, r)

quads_with_so ==
    /\ Idle
    /\ \E s \in SubjectArgs, o \in ObjectArgs :
        \E r \in SophiaConnection_quads_with_so(store, s, o) :
            Does("quads_with_so", s, Unbound, o, Unbound, r)

quads_with_sg ==
    /\ Idle
    /\ \E s \in SubjectArgs, g \in GraphArgs :
        \E r \in SophiaConnection_quads_with_sg(store, s, g) :
            Does("quads_with_sg", s, Unbound, Unbound, g, r)

quads_with_po ==
    /\ Idle
    /\ \E p \in PredicateArgs, o \in ObjectArgs :
        \E r \in SophiaConnection_quads_with_po(store, p, o) :
            Does("quads_with_po", Unbound, p, o, Unbound, r)

quads_with_pg ==
    /\ Idle
    /\ \E p \in PredicateArgs, g \in GraphArgs :
        \E r \in SophiaConnection_quads_with_pg(store, p, g) :
            Does("quads_with_pg", Unbound, p, Unbound, g, r)

quads_with_og ==
    /\ Idle
    /\ \E o \in ObjectArgs, g \in GraphArgs :
        \E r \in SophiaConnection_quads_with_og(store, o, g) :
            Does("quads_with_og", Unbound, Unbound, o, g, r)

quads_with_spo ==
    /\ Idle
    /\ \E s \in SubjectArgs, p \in PredicateArgs, o \in ObjectArgs :
        \E r \in SophiaConnection_quads_with_spo(store, s, p, o) :
            Does("quads_with_spo", s, p, o, Unbound, r)

quads_with_spg ==
    /\ Idle
    /\ \E s \in SubjectArgs, p \in PredicateArgs, g \in GraphArgs :
        \E r \in SophiaConnection_quads_with_spg(store, s, p, g) :
            Does("quads_with_spg", s, p, Unbound, g, r)

quads_with_sog ==
    /\ Idle
    /\ \E s \in SubjectArgs, o \in ObjectArgs, g \in GraphArgs :
        \E r \in SophiaConnection_quads_with_sog(store, s, o, g) :
            Does("quads_with_sog", s, Unbound, o, g, r)

quads_with_pog ==
    /\ Idle
    /\ \E p \in PredicateArgs, o \in ObjectArgs, g \in GraphArgs :
        \E r \in SophiaConnection_quads_with_pog(store, p, o, g) :
            Does("quads_with_pog", Unbound, p, o, g, r)

quads_with_spog ==
    /\ Idle
    /\ \E s \in SubjectArgs, p \in PredicateArgs, o \in ObjectArgs, g \in GraphArgs :
        \E r \in SophiaConnection_quads_with_spog(store, s, p, o, g) :
            Does("quads_with_spog", s, p, o, g, r)

contains ==
    /\ Idle
    /\ \E s \in SubjectArgs, p \in PredicateArgs, o \in ObjectArgs, g \in GraphArgs :
        \E r \in SophiaConnection_contains(store, s, p, o, g) :
            Does("contains", s, p, o, g, r)

insert ==
    /\ Idle
    /\ \E s \in SubjectArgs, p \in PredicateArgs, o \in ObjectArgs, g \in GraphArgs :
        \E r \in SophiaConnection_insert(store, s, p, o, g) :
            Does("insert", s, p, o, g, r)

remove ==
    /\ Idle
    /\ \E s \in SubjectArgs, p \in PredicateArgs, o \in ObjectArgs, g \in GraphArgs :
        \E r \in SophiaConnection_remove(store, s, p, o, g) :
            Does("remove", s, p, o, g, r)

\* The caller drops the value returned (a result, or the iterator that
\* borrows the connection) and may call again.
DropResult ==
    /\ last # None
    /\ last' = None
    /\ UNCHANGED <<endian, termVars, cellVars, scenarioVars, store, bridgeVars, nativeVars>>

Next ==
    \/ quads
    \/ quads_with_s
    \/ quads_with_p
    \/ quads_with_o
    \/ quads_with_g
    \/ quads_with_sp
    \/ quads_with_so
    \/ quads_with_sg
    \/ quads_with_po
    \/ quads_with_pg
    \/ quads_with_og
    \/ quads_with_spo
    \/ quads_with_spg
    \/ quads_with_sog
    \/ quads_with_pog
    \/ quads_with_spog
    \/ contains
    \/ insert
    \/ remove
    \/ DropResult

Spec == SpecInit /\ [][Next]_vars

----------------------------------------------------------------------------
(* repository.rs: Dataset and MutableDataset for Pin<Box<SophiaRepository>>. *)
(* The repository owns the store; quads() and contains() go through the      *)
(* connection made at construction, insert() and remove() through a fresh    *)
(* one.  Every connection reads and writes the store of its repository.      *)

SophiaRepository_fresh_connection(bk) ==
    IF bk = "err" THEN Err(OxigraphError) ELSE Ok("connection")

SophiaRepository_quads(st) == SophiaConnection_quads(st)

SophiaRepository_contains(st, s, p, o, g) == SophiaConnection_contains(st, s, p, o, g)

\* insert writing to the default graph whatever the graph name given
SophiaRepository_insert_NoGraph(st, s, p, o, g) ==
    UNION {LET c == SophiaRepository_fresh_connection(bk)
           IN  IF c.ok THEN SophiaConnection_insert(st, s, p, o, None)
               ELSE {Outcome(Err(MutationError("Oxigraph", c.err)), st, <<>>, "err")} :
              bk \in BackendOutcomes}

SophiaRepository_insert(st, s, p, o, g) ==
    UNION {LET c == SophiaRepository_fresh_connection(bk)
           IN  IF c.ok THEN SophiaConnection_insert(st, s, p, o, g)
               ELSE {Outcome(Err(MutationError("Oxigraph", c.err)), st, <<>>, "err")} :
              bk \in BackendOutcomes}

SophiaRepository_remove(st, s, p, o, g) ==
    UNION {LET c == SophiaRepository_fresh_connection(bk)
           IN  IF c.ok THEN SophiaConnection_remove(st, s, p, o, g)
               ELSE {Outcome(Err(MutationError("Oxigraph", c.err)), st, <<>>, "err")} :
              bk \in BackendOutcomes}

----------------------------------------------------------------------------
(* ScenarioSpec: on a new SophiaRepository (an empty store), one quad whose  *)
(* terms all convert is inserted, the store is scanned, the quad is looked   *)
(* up, removed and looked up again.                                          *)

LitEN == SLiteral_new_lang_unchecked("chat", <<69, 78>>)
LitString == SLiteral_new_dt("", SIri_new_unchecked(XSD_STRING, "", TRUE))

\* The blank node "0A": a hexadecimal number, not in the backend's form
Bn0A == SBlankNode_new_unchecked(<<48, 65>>)

ScenarioQuads ==
    [s : {IriA, IriB, Bn1, BnHello, Bn0A},
     p : {IriA, IriB},
     o : {IriA, Bn1, BnHello, Lit42, LitEN, LitString},
     g : {None, Some(IriB), Some(Bn1), Some(BnHello), Some(Bn0A)}]

ScenarioInit ==
    /\ endian \in {"little", "big"}
    /\ tterm = SVariable("x") /\ tpos = "subject" /\ tnative = None /\ tback = None
    /\ cinit = "t1" /\ cell = OnceToggle_new(cinit) /\ hist = <<>>
    /\ sq \in ScenarioQuads
    /\ strace = <<>> /\ oquad = None /\ qb = None /\ qhist = <<>>
    /\ nterm = None /\ npos = "subject" /\ ngeneric = None /\ nback = None
    /\ store = {}
    /\ last = None

\* Step n of the scenario: the call `op` with outcome r.
Step(n, op, r) ==
    /\ Len(strace) = n - 1
    /\ store' = r.store
    /\ strace' = Append(strace, [op |-> op, ret |-> r.ret, calls |-> r.calls, bk |-> r.bk])
    /\ UNCHANGED <<endian, termVars, cellVars, sq, last, bridgeVars, nativeVars>>

repo_insert ==
    \E r \in SophiaRepository_insert(store, sq.s, sq.p, sq.o, sq.g) : Step(1, "insert", r)

repo_quads ==
    \E r \in SophiaRepository_quads(store) : Step(2, "quads", r)

repo_contains ==
    \E n \in {3, 5} :
        \E r \in SophiaRepository_contains(store, sq.s, sq.p, sq.o, sq.g) :
            Step(n, "contains", r)

repo_remove ==
    \E r \in SophiaRepository_remove(store, sq.s, sq.p, sq.o, sq.g) : Step(4, "remove", r)

ScenarioNext == repo_insert \/ repo_quads \/ repo_contains \/ repo_remove

ScenarioSpec == ScenarioInit /\ [][ScenarioNext]_vars

----------------------------------------------------------------------------
(* AggregateSpec: a SophiaConnection on which quads whose terms convert are  *)
(* inserted and removed, and the aggregate extractors are called; `last`     *)
(* holds the call of an extractor just made.                                 *)

\* "chat" with the tag "_", which is not a language tag
LitBadTag == SLiteral_new_lang_unchecked("chat", <<95>>)

AggregateQuads ==
    [s : {IriA, BnHello},
     p : {IriB},
     o : {IriA, Bn1, Lit42, LitEN, LitBadTag},
     g : {None, Some(IriB), Some(Bn1)}]

AggregateInit ==
    /\ endian \in {"little", "big"}
    /\ tterm = SVariable("x") /\ tpos = "subject" /\ tnative = None /\ tback = None
    /\ cinit = "t1" /\ cell = OnceToggle_new(cinit) /\ hist = <<>>
    /\ sq = None /\ strace = <<>> /\ oquad = None /\ qb = None /\ qhist = <<>>
    /\ nterm = None /\ npos = "subject" /\ ngeneric = None /\ nback = None
    /\ store = {}
    /\ last = None

\* A write, of which the result is dropped at once.
Writes(r) ==
    /\ Cardinality(r.store) <= MaxStore
    /\ store' = r.store
    /\ UNCHANGED <<endian, termVars, cellVars, scenarioVars, last, bridgeVars, nativeVars>>

insert_quad ==
    /\ Idle
    /\ \E q \in AggregateQuads :
        \E r \in SophiaConnection_insert(store, q.s, q.p, q.o, q.g) : Writes(r)

remove_quad ==
    /\ Idle
    /\ \E q \in AggregateQuads :
        \E r \in SophiaConnection_remove(store, q.s, q.p, q.o, q.g) : Writes(r)

subjects ==
    /\ Idle
    /\ \E r \in SophiaConnection_subjects(store) :
        Does("subjects", Unbound, Unbound, Unbound, Unbound, r)

predicates ==
    /\ Idle
    /\ \E r \in SophiaConnection_predicates(store) :
        Does("predicates", Unbound, Unbound, Unbound, Unbound, r)

objects ==
    /\ Idle
    /\ \E r \in SophiaConnection_objects(store) :
        Does("objects", Unbound, Unbound, Unbound, Unbound, r)

graph_names ==
    /\ Idle
    /\ \E r \in SophiaConnection_graph_names(store) :
        Does("graph_names", Unbound, Unbound, Unbound, Unbound, r)

iris ==
    /\ Idle
    /\ \E r \in SophiaConnection_iris(store) :
        Does("iris", Unbound, Unbound, Unbound, Unbound, r)

bnodes ==
    /\ Idle
    /\ \E r \in SophiaConnection_bnodes(store) :
        Does("bnodes", Unbound, Unbound, Unbound, Unbound, r)

literals ==
    /\ Idle
    /\ \E r \in SophiaConnection_literals(store) :
        Does("literals", Unbound, Unbound, Unbound, Unbound, r)

variables ==
    /\ Idle
    /\ \E r \in SophiaConnection_variables(store) :
        Does("variables", Unbound, Unbound, Unbound, Unbound, r)

AggregateNext ==
    \/ insert_quad
    \/ remove_quad
    \/ subjects
    \/ predicates
    \/ objects
    \/ graph_names
    \/ iris
    \/ bnodes
    \/ literals
    \/ variables
    \/ DropResult

AggregateSpec == AggregateInit /\ [][AggregateNext]_vars

----------------------------------------------------------------------------
(* Claims about the term conversions (TermSpec) *)

IsBNode(t) == t.kind = "BNode"

AllHex(id) == \A i \in 1..Len(id) : to_digit(id[i]) >= 0

\* The backend's string form of a 128-bit id: 1 to 32 lower-case hexadecimal
\* digits, without a leading zero unless the string is "0".
IsCanonicalHex(id) ==
    /\ Len(id) \in 1..U128_HEX_DIGITS
    /\ \A i \in 1..Len(id) : id[i] \in 48..57 \/ id[i] \in 97..102
    /\ (id[1] = 48 => Len(id) = 1)

\* A string u128::from_str_radix(_, 16) accepts: an optional '+', then one or
\* more hexadecimal digits of which at most 32 follow the leading zeros.
IsHexU128(id) ==
    LET d == IF Len(id) > 0 /\ id[1] = 43 THEN SubSeq(id, 2, Len(id)) ELSE id
    IN  /\ Len(d) > 0
        /\ AllHex(d)
        /\ \A i \in 1..(Len(d) - U128_HEX_DIGITS) : d[i] = 48

Converted == tnative.some
ConvertedOk == tnative.some /\ tnative.val.ok
ErrKind == IF tnative.some /\ ~tnative.val.ok THEN tnative.val.err.kind ELSE "none"

\* C7: the outcome of generic_to_native by kind of term and position: a
\* Variable fails with Variable at every position; a BlankNode at predicate
\* position fails with BlankNode whatever its identifier; a Literal at subject,
\* predicate or graph position fails with Literal; a relative IRI fails with
\* RelativeIriRef at every position; an absolute IRI succeeds at every
\* position; a Literal at object position succeeds when it has a language tag
\* or an absolute datatype IRI.
C7_ConversionOutcome ==
    Converted =>
        /\ (tterm.kind = "Variable" => ErrKind = "Variable")
        /\ (IsBNode(tterm) /\ tpos = "predicate" => ErrKind = "BlankNode")
        /\ (tterm.kind = "Literal" /\ tpos # "object" => ErrKind = "Literal")
        /\ (tterm.kind = "Iri" /\ ~tterm.absolute => ErrKind = "RelativeIriRef")
        /\ (tterm.kind = "Iri" /\ tterm.absolute =>
                ConvertedOk /\ tnative.val.val.kind = "NamedNode")
        /\ (tterm.kind = "Literal" /\ tpos = "object"
                /\ (tterm.lang.some \/ tterm.dt.absolute) =>
                ConvertedOk /\ tnative.val.val.kind = "Literal")

C7_Witness ==
    /\ Converted /\ ErrKind = "Literal"
    /\ tterm.kind = "Literal" /\ tpos = "graph"

\* C8 as stated: every blank node identifier of at most 16 ASCII bytes, and
\* every 32-hex-digit identifier, comes back unchanged from generic_to_native
\* followed by native_to_generic.
C8_RoundTripAsStated ==
    (/\ tback.some /\ IsBNode(tterm)
     /\ \/ Len(tterm.id) <= U128_BYTES /\ \A i \in 1..Len(tterm.id) : tterm.id[i] < 128
        \/ Len(tterm.id) = U128_HEX_DIGITS /\ AllHex(tterm.id))
    => tback.val = SBlankNode_new_unchecked(tterm.id)

\* C8 (amended): a blank node identifier that converts comes back unchanged
\* from generic_to_native followed by native_to_generic exactly when it is the
\* backend's string form of a 128-bit id (1 to 32 lower-case hexadecimal
\* digits, no leading zero unless it is "0"); every other identifier comes
\* back as the lower-case hexadecimal form of the id it was mapped to.
C8_RoundTripCanonical ==
    (tback.some /\ IsBNode(tterm)) =>
        /\ IsBNode(tback.val)
        /\ IsCanonicalHex(tback.val.id)
        /\ (tback.val.id = tterm.id <=> IsCanonicalHex(tterm.id))

C8_Witness ==
    /\ tback.some /\ IsBNode(tterm)
    /\ Len(tterm.id) = U128_HEX_DIGITS /\ IsCanonicalHex(tterm.id)
    /\ tback.val.id = tterm.id

\* C9 as stated: a blank node identifier longer than 16 bytes converts only
\* if it is a string of exactly 32 hexadecimal digits; every other one fails
\* with IncompatibleBnodeId.
C9_LongIdAsStated ==
    (Converted /\ IsBNode(tterm) /\ tpos # "predicate" /\ Len(tterm.id) > U128_BYTES)
    => IF Len(tterm.id) = U128_HEX_DIGITS /\ AllHex(tterm.id)
       THEN ConvertedOk
       ELSE ErrKind = "IncompatibleBnodeId"

\* C9 (amended): a blank node identifier longer than 16 bytes converts
\* exactly when it reads as a hexadecimal u128: an optional '+', then
\* hexadecimal digits of which at most 32 follow the leading zeros (so hex
\* strings of 17 to 32 digits convert, and longer ones padded with zeros);
\* every other identifier longer than 16 bytes fails with
\* IncompatibleBnodeId, carrying the identifier.
C9_LongIdHexU128 ==
    (Converted /\ IsBNode(tterm) /\ tpos # "predicate" /\ Len(tterm.id) > U128_BYTES)
    => IF IsHexU128(tterm.id)
       THEN ConvertedOk /\ tnative.val.val.kind = "BlankNode"
       ELSE tnative.val = Err(ConversionError("IncompatibleBnodeId", tterm.id))

C9_Witness ==
    /\ ConvertedOk /\ IsBNode(tterm)
    /\ Len(tterm.id) > U128_BYTES /\ Len(tterm.id) < U128_HEX_DIGITS

\* C10: an absolute IRI converts at every position, and converting the
\* result back yields an IRI with the same value.
C10_IriRoundTrip ==
    (tterm.kind = "Iri" /\ tterm.absolute) =>
        /\ (Converted => ConvertedOk)
        /\ (tback.some =>
                /\ tback.val.kind = "Iri"
                /\ SIri_value(tback.val) = tterm.ns \o tterm.suffix
                /\ STermEq(tback.val, tterm))

C10_Witness ==
    /\ tback.some /\ tterm.kind = "Iri" /\ tterm.absolute
    /\ tterm.suffix # "" /\ tpos = "predicate"

\* C11: at object position, a literal without a language tag whose datatype
\* is an absolute IRI converts and comes back with its value and its
\* datatype; a literal with a language tag converts to a native literal that
\* has no datatype and comes back with its value and the tag in ASCII lower
\* case.
C11_LiteralRoundTrip ==
    (tterm.kind = "Literal" /\ tpos = "object" /\ (tterm.lang.some \/ tterm.dt.absolute)) =>
        /\ (Converted => ConvertedOk)
        /\ (tback.some =>
                /\ tback.val.kind = "Literal"
                /\ tback.val.txt = tterm.txt
                /\ IF tterm.lang.some
                   THEN /\ OLiteral_destruct(tnative.val.val)[2] = None
                        /\ tback.val.lang.some
                        /\ Len(tback.val.lang.val) = Len(tterm.lang.val)
                        /\ \A i \in 1..Len(tterm.lang.val) :
                              tback.val.lang.val[i] =
                                 IF tterm.lang.val[i] \in 65..90
                                 THEN tterm.lang.val[i] + 32
                                 ELSE tterm.lang.val[i]
                   ELSE /\ ~tback.val.lang.some
                        /\ SIri_value(tback.val.dt) = SIri_value(tterm.dt))

\* A literal tagged "EN", and one tagged "fr-BE", converted and back.
C11_Witness ==
    /\ tback.some /\ tterm.kind = "Literal" /\ tpos = "object"
    /\ tterm.lang.some
    /\ \E i \in 1..Len(tterm.lang.val) : tterm.lang.val[i] \in 65..90

----------------------------------------------------------------------------
(* Claims about OnceToggle (CellSpec) *)

OnlyCalls(op) == \A i \in 1..Len(hist) : hist[i].op = op

Invocations == Cardinality({i \in 1..Len(hist) : hist[i].ran})

\* C6: on a fresh OnceToggle on which only get_or_toggle is called, with any
\* conversion functions, every call returns the same converted value (the
\* first call's function applied to the initial value), and a conversion
\* function is invoked exactly once in total, by the first call.
C6_GetOrToggleOnce ==
    (Len(hist) >= 1 /\ OnlyCalls("get_or_toggle")) =>
        /\ \A i \in 1..Len(hist) :
               /\ ~hist[i].panic
               /\ hist[i].ret = Some(Apply(hist[1].f, cinit))
               /\ hist[i].ran = (i = 1)
        /\ Invocations = 1

C6_Witness ==
    /\ Len(hist) >= 2 /\ OnlyCalls("get_or_toggle")
    /\ hist[1].f # hist[2].f
    /\ hist[2].ret = hist[1].ret

FallibleOps == {"try_toggle", "get_or_try_toggle"}

\* The call ran its function, which gave a value: the cell was converted.
Converts(h) ==
    /\ h.ran
    /\ ~h.panic
    /\ IF h.op \in FallibleOps THEN h.ret.val.ok ELSE TRUE

\* The call ran its function, which failed.
Failed(h) ==
    /\ h.ran
    /\ ~h.panic
    /\ IF h.op \in FallibleOps THEN ~h.ret.val.ok ELSE FALSE

ConvertedBefore(i) == \E j \in 1..(i - 1) : Converts(hist[j])

\* C16: state() returns 1 until a call has converted the cell and 2 after;
\* at most one call converts the cell, and it caches the value its function
\* gave; toggle and try_toggle on a converted cell panic without running f
\* and without changing the cached value, which no call changes but an
\* assignment by the caller through get_mut.
C16_StateOneWay ==
    /\ \A i \in 1..Len(hist) :
          /\ hist[i].op = "state" =>
                hist[i].ret = Some(IF ConvertedBefore(i) THEN 2 ELSE 1)
          /\ (hist[i].op \in {"toggle", "try_toggle"} /\ ConvertedBefore(i)) =>
                /\ hist[i].panic /\ ~hist[i].ran
                /\ hist[i].after = hist[i].before
          /\ Converts(hist[i]) =>
                /\ ~ConvertedBefore(i)
                /\ hist[i].after.state2 = Some([by |-> hist[i].f, of |-> cinit])
          /\ (hist[i].before.state2.some /\ hist[i].f # "write") =>
                hist[i].after.state2 = hist[i].before.state2
          /\ hist[i].before.state2.some => hist[i].after.state2.some
    /\ cell.state2.some => ConvertedBefore(Len(hist) + 1)

\* toggle, then try_toggle which panics, then state() which returns 2.
C16_Witness ==
    /\ Len(hist) = 3
    /\ hist[1].op = "toggle" /\ Converts(hist[1])
    /\ hist[2].op = "try_toggle" /\ hist[2].panic
    /\ hist[3].op = "state" /\ hist[3].ret = Some(2)

\* C17: when the function of try_toggle or get_or_try_toggle fails, the call
\* returns the error, the cell holds neither value, and of the calls that
\* follow state() returns 1 and every other panics without running a
\* function.
C17_FailureLeavesUnusable ==
    \A j \in 1..Len(hist) :
        Failed(hist[j]) =>
            /\ hist[j].ret = Some(Err([by |-> hist[j].f, of |-> cinit]))
            /\ cell = [state1 |-> None, state2 |-> None]
            /\ \A i \in (j + 1)..Len(hist) :
                  IF hist[i].op = "state"
                  THEN hist[i].ret = Some(1)
                  ELSE hist[i].panic /\ ~hist[i].ran

\* get_or_try_toggle whose function fails, then get_or_toggle which panics,
\* then state() which returns 1.
C17_Witness ==
    /\ Len(hist) = 3
    /\ hist[1].op = "get_or_try_toggle" /\ Failed(hist[1])
    /\ hist[2].op = "get_or_toggle" /\ hist[2].panic
    /\ hist[3].op = "state" /\ hist[3].ret = Some(1)

\* C19: as long as no function has failed, the cell holds one value: the
\* source value and no converted value before a call has converted it, the
\* converted value and no source value after.
C19_ExactlyOneValue ==
    (\A j \in 1..Len(hist) : ~Failed(hist[j])) =>
        IF ConvertedBefore(Len(hist) + 1)
        THEN ~cell.state1.some /\ cell.state2.some
        ELSE cell.state1 = Some(cinit) /\ ~cell.state2.some

\* A cell converted by toggle, then read.
C19_Witness ==
    /\ Len(hist) = 3
    /\ hist[1].op = "state"
    /\ hist[2].op = "toggle" /\ Converts(hist[2])
    /\ hist[3].op = "get" /\ ~hist[3].panic
    /\ ~cell.state1.some

----------------------------------------------------------------------------
(* Claims about QuadBridge (BridgeSpec) *)

Fields == {"s", "p", "o", "g"}

\* The cell of a field, or None for the graph name of a bridge that has none.
CellOf(b, f) ==
    CASE f = "s" -> Some(b.s)
      [] f = "p" -> Some(b.p)
      [] f = "o" -> Some(b.o)
      [] f = "g" -> b.g

\* The native term of a field, or None for the default graph.
NativeField(q, f) ==
    CASE f = "s" -> Some(q.s)
      [] f = "p" -> Some(q.p)
      [] f = "o" -> Some(q.o)
      [] f = "g" -> q.g

\* The bridge after the i-th call.
BridgeAfter(i) == IF i = Len(qhist) THEN qb ELSE qhist[i + 1].before

Accessed(f) == \E i \in 1..Len(qhist) : qhist[i].op = f

\* C18: a call of s(), p(), o() or g() leaves the cells of the other fields
\* as they were and the cell of its field converted, to the Sophia term of
\* the native term of the field, which it returns; it leaves a cell that was
\* converted as it was; a cell is converted only if its accessor has been
\* called; a bridge on a quad of the default graph has no graph cell and g()
\* returns None.
C18_PerFieldLazy ==
    /\ \A i \in 1..Len(qhist) :
          LET f == qhist[i].op
              before == qhist[i].before
              after == BridgeAfter(i)
              term == into_sophia(NativeField(oquad, f).val)
          IN  /\ \A x \in Fields \ {f} : CellOf(after, x) = CellOf(before, x)
              /\ IF CellOf(before, f).some
                 THEN /\ CellOf(after, f).val = [state1 |-> None, state2 |-> Some(term)]
                      /\ CellOf(before, f).val.state2.some =>
                            CellOf(after, f) = CellOf(before, f)
                      /\ qhist[i].ret = IF f = "g" THEN Some(term) ELSE term
                 ELSE /\ f = "g"
                      /\ after = before
                      /\ qhist[i].ret = None
    /\ \A f \in Fields :
          IF NativeField(oquad, f).some
          THEN /\ CellOf(qb, f).some
               /\ ~Accessed(f) => CellOf(qb, f).val = OnceToggle_new(NativeField(oquad, f).val)
          ELSE ~CellOf(qb, f).some

\* o() twice, g() and s() on a quad of a named graph: the predicate is not
\* converted, the other fields are.
C18_Witness ==
    /\ Len(qhist) = 4
    /\ qhist[1].op = "o" /\ qhist[2].op = "o" /\ qhist[3].op = "g" /\ qhist[4].op = "s"
    /\ oquad.g.some
    /\ qb.p.state1.some
    /\ qb.s.state2.some /\ qb.o.state2.some /\ qb.g.val.state2.some

----------------------------------------------------------------------------
(* Claims about the dataset operations of a connection (Spec) *)

\* The positions each pattern-iteration operation binds.
PatternOps ==
    [quads_with_s |-> {"subject"},
     quads_with_p |-> {"predicate"},
     quads_with_o |-> {"object"},
     quads_with_g |-> {"graph"},
     quads_with_sp |-> {"subject", "predicate"},
     quads_with_so |-> {"subject", "object"},
     quads_with_sg |-> {"subject", "graph"},
     quads_with_po |-> {"predicate", "object"},
     quads_with_pg |-> {"predicate", "graph"},
     quads_with_og |-> {"object", "graph"},
     quads_with_spo |-> {"subject", "predicate", "object"},
     quads_with_spg |-> {"subject", "predicate", "graph"},
     quads_with_sog |-> {"subject", "object", "graph"},
     quads_with_pog |-> {"predicate", "object", "graph"},
     quads_with_spog |-> {"subject", "predicate", "object", "graph"}]

Arg(c, pos) ==
    CASE pos = "subject" -> c.s
      [] pos = "predicate" -> c.p
      [] pos = "object" -> c.o
      [] pos = "graph" -> c.g

\* generic_to_native of the argument at a position; the graph argument is
\* None (the default graph, which always converts) or Some(term).
ArgToNative(x, pos) ==
    IF pos = "graph"
    THEN IF x.some
         THEN LET r == generic_to_native(x.val, pos)
              IN  IF r.ok THEN Ok(Some(r.val)) ELSE r
         ELSE Ok(None)
    ELSE generic_to_native(x, pos)

\* The positions, among those bound, whose argument fails to convert.
Failing(c, bound) == {pos \in bound : ~ArgToNative(Arg(c, pos), pos).ok}

NativeQuad(c) ==
    OQuad_new(ArgToNative(c.s, "subject").val, ArgToNative(c.p, "predicate").val,
              ArgToNative(c.o, "object").val, ArgToNative(c.g, "graph").val)

\* C2: a pattern-iteration operation of which a bound argument fails
\* generic_to_native at its position returns the empty sequence, not an
\* error, and makes no call on the backend, whatever the other arguments.
C2_PatternEmptyOnFailure ==
    (/\ last.some
     /\ last.val.op \in DOMAIN PatternOps
     /\ Failing(last.val, PatternOps[last.val.op]) # {})
    => /\ last.val.ret = <<>>
       /\ last.val.calls = <<>>

\* quads_with_sp on a subject of a stored quad and a predicate that does not
\* convert.
C2_Witness ==
    /\ last.some
    /\ last.val.op = "quads_with_sp"
    /\ Failing(last.val, PatternOps["quads_with_sp"]) = {"predicate"}
    /\ \E q \in store : q.s = ArgToNative(last.val.s, "subject").val
    /\ last.val.ret = <<>>

\* C3: contains returns Ok(false) without a call on the backend when one of
\* its arguments fails generic_to_native at its position; when the four
\* convert, it makes one membership call for the converted quad and returns
\* its answer.
C3_Contains ==
    (last.some /\ last.val.op = "contains")
    => IF Failing(last.val, Positions) # {}
       THEN /\ last.val.ret = Ok(FALSE)
            /\ last.val.calls = <<>>
       ELSE /\ last.val.calls = <<[fn |-> "contains", quad |-> NativeQuad(last.val)]>>
            /\ last.val.ret =
                 RepositoryConnection_contains(last.val.pre, NativeQuad(last.val), last.val.bk)

\* contains of a stored triple under a graph name that does not convert.
C3_Witness ==
    /\ last.some
    /\ last.val.op = "contains"
    /\ Failing(last.val, Positions) = {"graph"}
    /\ \E q \in store : /\ q.s = ArgToNative(last.val.s, "subject").val
                        /\ q.p = ArgToNative(last.val.p, "predicate").val
                        /\ q.o = ArgToNative(last.val.o, "object").val
    /\ last.val.ret = Ok(FALSE)

\* C4: insert with an argument that fails generic_to_native at its position
\* returns MutationError::Conversion of the ConversionError of a failing
\* argument, makes no call on the backend and leaves the store as it was.
C4_InsertPropagates ==
    (/\ last.some
     /\ last.val.op = "insert"
     /\ Failing(last.val, Positions) # {})
    => /\ \E pos \in Failing(last.val, Positions) :
            last.val.ret =
                Err(MutationError("Conversion", ArgToNative(Arg(last.val, pos), pos).err))
       /\ last.val.calls = <<>>
       /\ store = last.val.pre

\* insert, in a store that holds quads, with a blank node subject whose id is
\* incompatible.
C4_Witness ==
    /\ last.some
    /\ last.val.op = "insert"
    /\ Failing(last.val, Positions) = {"subject"}
    /\ store # {}
    /\ ~last.val.ret.ok
    /\ last.val.ret.err.kind = "Conversion"
    /\ last.val.ret.err.source.kind = "IncompatibleBnodeId"

\* C5: remove with an argument that fails generic_to_native at its position
\* returns Ok(false), makes no call on the backend and leaves the store as
\* it was.
C5_RemoveSwallows ==
    (/\ last.some
     /\ last.val.op = "remove"
     /\ Failing(last.val, Positions) # {})
    => /\ last.val.ret = Ok(FALSE)
       /\ last.val.calls = <<>>
       /\ store = last.val.pre

\* remove of a stored triple under a graph name that does not convert.
C5_Witness ==
    /\ last.some
    /\ last.val.op = "remove"
    /\ Failing(last.val, Positions) = {"graph"}
    /\ \E q \in store : /\ q.s = ArgToNative(last.val.s, "subject").val
                        /\ q.p = ArgToNative(last.val.p, "predicate").val
                        /\ q.o = ArgToNative(last.val.o, "object").val
    /\ last.val.ret = Ok(FALSE)

\* The native quad a bridge of which no field has been read holds.
Unbridged(b) ==
    OQuad_new(b.s.state1.val, b.p.state1.val, b.o.state1.val,
              IF b.g.some THEN Some(b.g.val.state1.val) ELSE None)

\* The sequence yielded is the backend's, element by element: a bridge on
\* the quad for a quad, the error for an error.
YieldsBackendSequence(ret, out) ==
    /\ Len(ret) = Len(out)
    /\ \A i \in 1..Len(out) :
          IF out[i].ok
          THEN ret[i].ok /\ Unbridged(ret[i].val) = out[i].val
          ELSE ret[i] = out[i]

\* C12: quads_with_s on an absolute IRI makes one range scan, for the subject
\* generic_to_native gives and any predicate, object and graph; it yields
\* the elements the scan yields, as many and in the same order, and s() of
\* every quad yielded is the IRI.
C12_QuadsWithSubject ==
    (/\ last.some
     /\ last.val.op = "quads_with_s"
     /\ last.val.s.kind = "Iri"
     /\ last.val.s.absolute)
    => /\ Len(last.val.calls) = 1
       /\ last.val.calls[1].fn = "quads_for_pattern"
       /\ last.val.calls[1].s = Some(generic_to_native(last.val.s, "subject").val)
       /\ last.val.calls[1].p = None
       /\ last.val.calls[1].o = None
       /\ last.val.calls[1].g = None
       /\ last.val.calls[1].out \in
             RepositoryConnection_quads_for_pattern(
                 last.val.pre, last.val.calls[1].s, None, None, None)
       /\ YieldsBackendSequence(last.val.ret, last.val.calls[1].out)
       /\ \A i \in 1..Len(last.val.ret) :
             last.val.ret[i].ok =>
                 /\ last.val.ret[i].val \in {QuadBridge_new(q) : q \in last.val.pre}
                 /\ STermEq(QuadBridge_s(last.val.ret[i].val).ret, last.val.s)

\* quads_with_s on an IRI, in a store that holds a quad of that subject and
\* a quad of another: the first is yielded, the second is not.
C12_Witness ==
    /\ last.some
    /\ last.val.op = "quads_with_s"
    /\ last.val.s.kind = "Iri" /\ last.val.s.absolute
    /\ \E q \in store : q.s # generic_to_native(last.val.s, "subject").val
    /\ Len(last.val.ret) = 1
    /\ last.val.ret[1].ok

\* The operations that return a sequence of quads.
IterationOps == {"quads"} \cup DOMAIN PatternOps

\* C13: in the sequence a pattern-iteration operation yields, a backend
\* error is the last element: nothing is yielded after it.
C13_EndsAfterError ==
    (last.some /\ last.val.op \in IterationOps)
    => \A i \in 1..Len(last.val.ret) : ~last.val.ret[i].ok => i = Len(last.val.ret)

\* C14: when the four arguments convert and the backend call succeeds,
\* insert returns Ok(true) and remove returns Ok(true), whether the quad was
\* in the store before the call or not; after insert the quad is in the
\* store, after remove it is not.
C14_AlwaysTrue ==
    (/\ last.some
     /\ last.val.op \in {"insert", "remove"}
     /\ Failing(last.val, Positions) = {}
     /\ last.val.bk = "ok")
    => /\ last.val.ret = Ok(TRUE)
       /\ store = IF last.val.op = "insert"
                  THEN last.val.pre \cup {NativeQuad(last.val)}
                  ELSE last.val.pre \ {NativeQuad(last.val)}

\* insert of a quad the store holds already: Ok(true), the store unchanged.
C14_Witness ==
    /\ last.some
    /\ last.val.op = "insert"
    /\ Failing(last.val, Positions) = {}
    /\ NativeQuad(last.val) \in last.val.pre
    /\ store = last.val.pre
    /\ last.val.ret = Ok(TRUE)

\* The positions an operation that returns quads binds.
BoundPositions(op) == IF op = "quads" THEN {} ELSE PatternOps[op]

NativeFieldAt(q, pos) ==
    CASE pos = "subject" -> q.s
      [] pos = "predicate" -> q.p
      [] pos = "object" -> q.o
      [] pos = "graph" -> q.g

\* C20: when its bound arguments convert and the backend does not fail, a
\* pattern-iteration operation yields the stored quads that have the bound
\* terms at the bound positions.  An operation without a graph argument
\* yields them from every graph, default and named; an operation with a
\* graph argument yields those of the default graph only when g is None and
\* those of the named graph g only when g is Some(g).
C20_GraphArgument ==
    (/\ last.some
     /\ last.val.op \in IterationOps
     /\ Failing(last.val, BoundPositions(last.val.op)) = {}
     /\ last.val.bk = "ok")
    => /\ \A i \in 1..Len(last.val.ret) : last.val.ret[i].ok
       /\ {Unbridged(last.val.ret[i].val) : i \in 1..Len(last.val.ret)} =
             {q \in last.val.pre :
                 /\ \A pos \in BoundPositions(last.val.op) \ {"graph"} :
                       NativeFieldAt(q, pos) = ArgToNative(Arg(last.val, pos), pos).val
                 /\ "graph" \in BoundPositions(last.val.op) =>
                       IF last.val.g.some
                       THEN q.g = Some(generic_to_native(last.val.g.val, "graph").val)
                       ELSE ~q.g.some}

\* quads_with_g(None) on a store that holds a quad of the default graph and
\* a quad of a named graph: one quad is yielded.
C20_Witness ==
    /\ last.some
    /\ last.val.op = "quads_with_g"
    /\ ~last.val.g.some
    /\ last.val.bk = "ok"
    /\ \E q1, q2 \in store : q1.g.some /\ ~q2.g.some
    /\ Len(last.val.ret) = 1

----------------------------------------------------------------------------
(* Claims about the aggregate extractors (AggregateSpec) *)

AggregateOps ==
    {"subjects", "predicates", "objects", "graph_names", "iris", "bnodes", "literals",
     "variables"}

\* The native terms of the stored quads at one position, and at any.
StoredAt(pos) ==
    CASE pos = "subject" -> {q.s : q \in store}
      [] pos = "predicate" -> {q.p : q \in store}
      [] pos = "object" -> {q.o : q \in store}
      [] pos = "graph" -> {q.g.val : q \in {x \in store : x.g.some}}

StoredAnywhere == UNION {StoredAt(pos) : pos \in Positions}

\* The native terms an extractor is about.
TermsOf(op) ==
    CASE op = "subjects" -> StoredAt("subject")
      [] op = "predicates" -> StoredAt("predicate")
      [] op = "objects" -> StoredAt("object")
      [] op = "graph_names" -> StoredAt("graph")
      [] op = "iris" -> {t \in StoredAnywhere : t.kind = "NamedNode"}
      [] op = "bnodes" -> {t \in StoredAnywhere : t.kind = "BlankNode"}
      [] op = "literals" -> {t \in StoredAnywhere : t.kind = "Literal"}
      [] op = "variables" -> {}

SameTermSet(A, B) ==
    /\ \A a \in A : \E b \in B : STermEq(a, b)
    /\ \A b \in B : \E a \in A : STermEq(a, b)

NoDuplicates(A) == \A a, b \in A : STermEq(a, b) => a = b

\* C15: after any inserts and removes, an extractor the backend does not
\* fail returns, without duplicates, the terms of its position or kind in
\* the stored quads of the default graph and of the named graphs, as the
\* quads of a scan give them (native_to_generic); variables() returns the
\* empty set.
C15_AggregatesAsStated ==
    (last.some /\ last.val.op \in AggregateOps /\ last.val.bk = "ok")
    => /\ last.val.ret.ok
       /\ NoDuplicates(last.val.ret.val)
       /\ SameTermSet(last.val.ret.val, {into_sophia(t) : t \in TermsOf(last.val.op)})

\* What the extractors return: the terms of the position or kind, each
\* converted by the copying conversion.
C15_AggregatesCopied ==
    (last.some /\ last.val.op \in AggregateOps /\ last.val.bk = "ok")
    => /\ last.val.ret.ok
       /\ NoDuplicates(last.val.ret.val)
       /\ SameTermSet(last.val.ret.val, {as_sophia(t) : t \in TermsOf(last.val.op)})

\* literals() on a store that holds a literal whose language tag is not
\* well-formed, in a named graph: the literal returned has the tag "und".
C15_Witness ==
    /\ last.some
    /\ last.val.op = "literals"
    /\ last.val.bk = "ok"
    /\ \E q \in store : /\ q.g.some
                        /\ q.o.kind = "Literal"
                        /\ q.o.variant = "LanguageTaggedString"
                        /\ ~is_valid_language_tag(q.o.language)
    /\ \E t \in last.val.ret.val : t.lang = Some(UND)

\* The objects a caller of quads() can read on the store: o() of the bridges
\* a scan the backend does not fail yields.
ScannedObjects ==
    {QuadBridge_o(r.ret[i].val).ret :
        r \in {x \in SophiaConnection_quads(store) : x.bk = "ok"},
        i \in 1..Cardinality(store)}

\* C22: the copying and the consuming conversion give equal terms for the
\* object of every stored quad, a literal whose language tag is not
\* well-formed included, and every term objects() or literals() returns
\* equals o() of some quad that quads() yields on the same store.
C22_CopyEqualsConsume ==
    (last.some /\ last.val.op \in {"objects", "literals"} /\ last.val.ret.ok)
    => /\ \A q \in store : STermEq(as_sophia(q.o), into_sophia(q.o))
       /\ \A t \in last.val.ret.val : \E u \in ScannedObjects : STermEq(t, u)

\* objects() has returned on a store of which one quad has, as its object, a
\* literal whose language tag is not well-formed.
C22_Witness ==
    /\ last.some
    /\ last.val.op = "objects"
    /\ last.val.ret.ok
    /\ \E q \in store : /\ q.o.kind = "Literal"
                        /\ q.o.variant = "LanguageTaggedString"
                        /\ ~is_valid_language_tag(q.o.language)

\* C22 on the stores that hold well-formed language tags only: there the two
\* conversions agree and the extractors return terms of the scan.
C22_WellFormedOnly ==
    (\A q \in store : (q.o.kind = "Literal" /\ q.o.variant = "LanguageTaggedString")
                          => is_valid_language_tag(q.o.language))
    => C22_CopyEqualsConsume

----------------------------------------------------------------------------
(* Claims about the repository scenario (ScenarioSpec) *)

\* The four terms a yielded quad gives.
QuadView(b) ==
    [s |-> QuadBridge_s(b).ret, p |-> QuadBridge_p(b).ret,
     o |-> QuadBridge_o(b).ret, g |-> QuadBridge_g(b).ret]

NoBackendFailure == \A i \in 1..Len(strace) : strace[i].bk = "ok"

SameGraphName(g1, g2) == g1.some = g2.some /\ (g1.some => STermEq(g1.val, g2.val))

\* The yielded quad is the inserted one.
SameQuad(y, q) ==
    /\ STermEq(y.s, q.s)
    /\ STermEq(y.p, q.p)
    /\ STermEq(y.o, q.o)
    /\ SameGraphName(y.g, q.g)

\* The 128-bit id a blank node identifier is mapped to: its value when it
\* reads as a hexadecimal number of at most 128 bits, and otherwise its bytes,
\* padded with zeros to 16, in the byte order of the build.
MappedId(id) ==
    LET parsed == from_str_radix(id)
    IN  IF parsed.ok THEN parsed.val ELSE transmute(zero_padded(id))

\* The yielded term is the inserted one, or the inserted one is a blank node
\* whose id is not the backend's form of an id and the yielded one is the
\* blank node named by the backend's form of the id it was mapped to.
SameTermOrRelabelled(y, t) ==
    IF IsBNode(t) /\ ~IsCanonicalHex(t.id)
    THEN IsBNode(y) /\ y.id = lower_hex(MappedId(t.id))
    ELSE STermEq(y, t)

SameQuadOrRelabelled(y, q) ==
    /\ SameTermOrRelabelled(y.s, q.s)
    /\ SameTermOrRelabelled(y.p, q.p)
    /\ SameTermOrRelabelled(y.o, q.o)
    /\ y.g.some = q.g.some
    /\ (q.g.some => SameTermOrRelabelled(y.g.val, q.g.val))

\* The scenario but for what the scan yields.
ScenarioAnswers ==
    /\ Len(strace) >= 1 => strace[1].ret = Ok(TRUE)
    /\ Len(strace) >= 2 => Len(strace[2].ret) = 1 /\ strace[2].ret[1].ok
    /\ Len(strace) >= 3 => strace[3].ret = Ok(TRUE)
    /\ Len(strace) >= 5 => strace[5].ret = Ok(FALSE)

\* C1 as stated: in a new repository, when the backend does not fail, insert
\* of a quad whose terms convert succeeds, the scan yields that quad and no
\* other, contains of it is true, and false after remove of it.
C1_ScenarioAsStated ==
    NoBackendFailure
    => /\ ScenarioAnswers
       /\ Len(strace) >= 2 => SameQuad(QuadView(strace[2].ret[1].val), sq)

\* The native quad the quad of the scenario is converted to.
ScenarioNative ==
    OQuad_new(generic_to_native(sq.s, "subject").val,
              generic_to_native(sq.p, "predicate").val,
              generic_to_native(sq.o, "object").val,
              try_oxi_graphname(sq.g).val)

\* Step n was made and the backend did not fail in it.
Succeeded(n) == Len(strace) >= n /\ strace[n].bk = "ok"

\* The quad is in the store after step n: inserted, and not removed since.
Held(n) == Succeeded(1) /\ ~(n >= 4 /\ Succeeded(4))

\* What a write returns: true, or the error of the backend.
WriteAnswer(n) ==
    strace[n].ret = IF strace[n].bk = "ok" THEN Ok(TRUE)
                    ELSE Err(MutationError("Oxigraph", OxigraphError))

\* What contains returns: whether the quad is in the store, or the error of
\* the backend.
ContainsAnswer(n) ==
    strace[n].ret = IF strace[n].bk = "ok" THEN Ok(Held(n)) ELSE Err(OxigraphError)

\* What the scan yields: the one quad in the store, with the terms inserted
\* or relabelled, nothing when the insert failed, and the error of the
\* backend among its items when the backend fails.
ScanAnswer ==
    LET ret == strace[2].ret
    IN  IF strace[2].bk # "ok"
        THEN \E i \in 1..Len(ret) : ret[i] = Err(OxigraphError)
        ELSE IF Held(2)
        THEN /\ Len(ret) = 1
             /\ ret[1].ok
             /\ SameQuadOrRelabelled(QuadView(ret[1].val), sq)
        ELSE ret = <<>>

\* C1: in a new repository, for a quad whose terms convert: insert and remove
\* return true and write the store, or return the error of the backend and
\* leave the store as it was; the scan yields the quad of the store and no
\* other, with the terms inserted but that a blank node whose id is not a
\* lower-case hexadecimal number without leading zeros is named by that form
\* of the 128-bit id it was mapped to, or yields the error of the backend;
\* contains is true after an insert that succeeded, false after a remove
\* that succeeded, or is the error of the backend.
C1_Scenario ==
    /\ store = IF Held(Len(strace)) THEN {ScenarioNative} ELSE {}
    /\ Len(strace) >= 1 => WriteAnswer(1)
    /\ Len(strace) >= 2 => ScanAnswer
    /\ Len(strace) >= 3 => ContainsAnswer(3)
    /\ Len(strace) >= 4 => WriteAnswer(4)
    /\ Len(strace) >= 5 => ContainsAnswer(5)

\* The whole scenario, without backend failure, on a quad in a named graph
\* with a literal object and a blank node subject that is yielded under
\* another id.
C1_Witness ==
    /\ Len(strace) = 5
    /\ NoBackendFailure
    /\ sq.g.some
    /\ sq.o.kind = "Literal"
    /\ IsBNode(sq.s) /\ ~IsCanonicalHex(sq.s.id)
    /\ QuadView(strace[2].ret[1].val).s.id # sq.s.id
    /\ strace[5].ret = Ok(FALSE)

----------------------------------------------------------------------------
(* Claims about the terms of stored quads (NativeSpec) *)

\* C21: a term of a stored quad (an IRI, a blank node with any 128-bit id, a
\* plain, typed or lower-case-tagged literal at the object position), handed
\* over by into_sophia and converted back for the position it came from, is
\* converted without error to the stored term itself.
C21_NativeRoundTrip ==
    nback.some => /\ nback.val.ok
                  /\ nback.val.val = nterm

\* A blank node whose id needs all 32 hexadecimal digits, read from the graph
\* position and converted back.
C21_Witness ==
    /\ nback.some /\ npos = "graph"
    /\ nterm.kind = "BlankNode" /\ nterm.id[1] # 0

============================================================================
